---- MODULE Spec2Model ----
(***************************************************************************)
(* WinAudioLEDReact: loopback capture -> queued frame hand-off -> stereo   *)
(* FFT analysis (AudioProcessor) as wired by MainWindow.                   *)
(*                                                                         *)
(* Two specifications share the variables:                                 *)
(*   SpecDsp : the public slots of one AudioProcessor called one after     *)
(*             another (the object's own thread), with the real FFT sizes. *)
(*   Spec    : MainWindow's threads: GUI, audio QThread, device callback   *)
(*             thread, DSP QThread, with the queued connections between    *)
(*             them.                                                       *)
(***************************************************************************)
EXTENDS Integers, Sequences, FiniteSets, TLC

(***************************************************************************)
(* Bounds of the model                                                     *)
(***************************************************************************)
MaxSamples == 10240     \* samples per channel offered to one DSP session
MaxAllocFail == 1       \* failed kiss_fftr_alloc calls per DSP session
MaxReconfig == 2        \* effective setSampleRate/setNumBands calls (SpecDsp)
MaxBatches == 3         \* framesReady batches emitted (Spec, SpecApi)
MaxClicks == 3          \* accepted Start/Stop clicks (Spec)
MaxApply == 1           \* accepted Apply clicks (Spec)
MaxCalls == 7           \* calls made by the sequential caller (SpecApi)
MaxElapsed == 21        \* ms the throttle timer is let run (SpecUdp, SpecUdpRoll)
MaxThrottled == 1       \* throttled calls between two accepted ones
MaxVaried == 1          \* accepted calls with a vector that is not all-zero (SpecUdp)
MaxZeroRun == 8         \* accepted all-zero calls in a row (SpecUdp)
MaxRollSends == 258     \* datagrams written (SpecUdpRoll)
MaxOnsetSteps == 12     \* detectOnsets steps (SpecOnset)
MaxTransients == 3      \* steps with flux above the threshold (SpecOnset)
MaxAdvCalls == 6        \* calls made on the AdvancedAudioProcessor (SpecAdv)
MaxAdvAllocFail == 1    \* calls in which a kiss_fftr_alloc fails (SpecAdv)

(***************************************************************************)
(* Program constants                                                       *)
(***************************************************************************)
DefaultSr == 48000      \* AudioProcessor::_sr initial value
DefaultN == 1024        \* AudioProcessor::_N initial value
DefaultHop == 512       \* AudioProcessor::_hop initial value
DefaultNumBands == 16   \* AudioProcessor::_numBands initial value
DefaultDcCoeff == 995000 \* _dcBlockerCoeff = 0.995f, in millionths
NLo == 1024             \* setSampleRate: nearestPow2Clamped(.., 1024, 4096)
NHi == 4096
NULL == 0               \* nullptr
NominalRate == 48000    \* the rate AudioProcessor assumes until told otherwise
PeriodFrames == 480     \* cfg.periodSizeInFrames
ThrottleMs == 20        \* sendFromBins: _throttle.elapsed() < 20
TargetPort == 11988     \* setTarget(QHostAddress("192.168.50.165"), 11988)
SlowInit == 1000        \* _slow{1e-3f}, in millionths

\* Inputs the environment draws from.
BatchSizes == {256, 480, 1536}
BatchShapes == {<<n, n>> : n \in BatchSizes} \cup {<<0, 256>>, <<256, 0>>}
Rates == {0, 22050, 44100, 48000}
BandChoices == {8, 16, 32, 64}
DeviceRates == {44100, 48000}     \* _dev->sampleRate after ma_device_init
DeviceChannels == {1, 2}          \* _dev->capture.channels
FrameCounts == {0, PeriodFrames}  \* frameCount of a driver callback

VARIABLES
  \* ---- AudioProcessor fields
  dsp_running,        \* std::atomic<bool> _running
  _initialized,
  _sr, _N, _hop, _numBands,
  _cfg,               \* kiss_fftr_cfg: NULL, or the nfft it was allocated for
  _window,            \* length of the Hann table (the table is a function of its length)
  _dcBlockerCoeff,    \* in millionths
  _kLoHi,             \* band-to-bin table (_kLo/_kHi)
  _fifoL, _fifoR,
  _dcBlockerXprevL, _dcBlockerXprevR,
  \* ---- history of the current DSP session (since the FIFOs were last cleared)
  srcL, srcR,         \* samples offered per channel to the running processor
  allocFails,         \* kiss_fftr_alloc calls that returned null
  nRaw,               \* binsReadyRaw emissions
  lastFrames          \* analysis windows copied by the latest onFrames call

dspVars == <<dsp_running, _initialized, _sr, _N, _hop, _numBands, _cfg, _window,
             _dcBlockerCoeff, _kLoHi, _fifoL, _fifoR, _dcBlockerXprevL,
             _dcBlockerXprevR, srcL, srcR, allocFails, nRaw, lastFrames>>

\* ---- the callers of SpecDsp and SpecApi
VARIABLES
  reconfigs,          \* effective setSampleRate/setNumBands calls made (SpecDsp)
  lastCall, prevCall, \* the last two slots the sequential caller invoked (SpecApi)
  calls               \* calls made by the sequential caller (SpecApi)

callerVars == <<reconfigs, lastCall, prevCall, calls>>

VARIABLES
  \* ---- AudioCapture: its fields and what it has emitted, one record
  cap,
  \* ---- MainWindow and its threads
  mw_running,         \* MainWindow::_running
  at_pc, at_exited,   \* _audioThread: position, QThread's exit-requested flag
  dt_pc, dt_exited,   \* _dspThread: likewise
  dt_cur,             \* the queued call the DSP thread is executing
  dspQ,               \* posted events of the DSP thread (queued connections)
  guiQ,               \* posted events of the GUI thread
  dsp_raced,          \* the GUI thread ran cleanup() while a DSP slot was executing
  \* ---- history
  delivered,          \* ids of the batches handed to AudioProcessor::onFrames
  startsAccepted,     \* onStart calls that passed the _running guard
  dspStartCalls,      \* AudioProcessor::start invocations
  clicks,             \* accepted Start/Stop clicks
  applies             \* accepted Apply clicks

pipeVars == <<mw_running, at_pc, at_exited, dt_pc, dt_exited, dt_cur, dspQ, guiQ,
              dsp_raced, delivered, startsAccepted, dspStartCalls, clicks, applies>>

\* ---- the components checked on their own (SpecBands)
VARIABLES
  bt,                 \* setupFrequencyBands in progress: its inputs, edges, loop index, _kLo/_kHi
  udp,                \* UdpSrSender: its fields and what it has sent
  ons,                \* AdvancedAudioProcessor: the onset detector's fields and its history
  viz,                \* MultiResolutionVisualizerWidget: history length, rectangle width, indices read
  em,                 \* AudioProcessor: one analysis frame's band vectors and the signals emitted for it
  mp,                 \* AdvancedAudioProcessor: a frequency mapping being built, band by band
  adv                 \* AdvancedAudioProcessor: its fields, the FFT configurations allocated, what it emitted

extVars == <<bt, udp, ons, viz, em, mp, adv>>

vars == <<dspVars, callerVars, cap, pipeVars, extVars>>
Clamp(x, lo, hi) == IF x < lo THEN lo ELSE IF x > hi THEN hi ELSE x

(***************************************************************************)
(* Sample buffers.  A sample is identified by where it came from: channel  *)
(* src and position pos in that channel's stream, so a skipped, repeated   *)
(* or reordered sample is visible.  A buffer (std::vector<float>,          *)
(* QVector<float>) is kept run-length encoded: a sequence of runs          *)
(* [src, a, b] standing for the samples (src, a), (src, a+1) .. (src, b),  *)
(* a <= b, where no run continues the one before it.  Two buffers hold the *)
(* same samples in the same order exactly when their encodings are equal.  *)
(***************************************************************************)
Run(src, a, b) == [src |-> src, a |-> a, b |-> b]
RunLen(r) == r.b - r.a + 1

\* n samples of channel src following position from (an input batch)
Batch(src, from, n) == IF n <= 0 THEN <<>> ELSE <<Run(src, from + 1, from + n)>>

RECURSIVE Size(_)
Size(f) == IF f = <<>> THEN 0 ELSE RunLen(Head(f)) + Size(Tail(f))

\* push one run at the back
PushRun(f, r) ==
  IF f # <<>> /\ f[Len(f)].src = r.src /\ f[Len(f)].b + 1 = r.a
  THEN [f EXCEPT ![Len(f)] = Run(r.src, f[Len(f)].a, r.b)]
  ELSE Append(f, r)

\* f followed by g
RECURSIVE Cat(_, _)
Cat(f, g) == IF g = <<>> THEN f ELSE Cat(PushRun(f, Head(g)), Tail(g))

\* the first n samples of f
RECURSIVE Take(_, _)
Take(f, n) ==
  IF n <= 0 \/ f = <<>> THEN <<>>
  ELSE LET r == Head(f) IN
       IF RunLen(r) <= n
       THEN <<r>> \o Take(Tail(f), n - RunLen(r))
       ELSE <<Run(r.src, r.a, r.a + n - 1)>>

\* f without its first n samples
RECURSIVE Drop(_, _)
Drop(f, n) ==
  IF n <= 0 \/ f = <<>> THEN f
  ELSE LET r == Head(f) IN
       IF RunLen(r) <= n
       THEN Drop(Tail(f), n - RunLen(r))
       ELSE <<Run(r.src, r.a + n, r.b)>> \o Tail(f)

\* the last sample of a non-empty buffer
LastSample(f) == [src |-> f[Len(f)].src, pos |-> f[Len(f)].b]
ZeroSample == [src |-> "zero", pos |-> 0]

(***************************************************************************)
(* AudioProcessor                                                          *)
(***************************************************************************)
RECURSIVE Pow2AtLeast(_, _)
Pow2AtLeast(p, x) == IF p < x THEN Pow2AtLeast(2 * p, x) ELSE p

nearestPow2Clamped(x, lo, hi) == Clamp(Pow2AtLeast(1, x), lo, hi)

\* int(std::lround(sr * 0.043)) for sr > 0
targetSamples(sr) == (sr * 43 + 500) \div 1000

\* 1 - 2*pi*20/fs clamped to [0.9, 0.999], in millionths
computeDCBlockerCoeff(sr) == Clamp(1000000 - (125663706 \div sr), 900000, 999000)

\* The table is determined by the rate, the FFT size and the band count.
setupFrequencyBands(sr, n, nb) == [sr |-> sr, N |-> n, numBands |-> nb]

NoTable == [sr |-> 0, N |-> 0, numBands |-> 0]

\* cleanup(): frees the plan, clears both FIFOs (and with them the session).
cleanup ==
  /\ _cfg' = NULL
  /\ _fifoL' = <<>>
  /\ _fifoR' = <<>>
  /\ srcL' = 0
  /\ srcR' = 0
  /\ allocFails' = 0
  /\ nRaw' = 0
  /\ lastFrames' = <<>>

dsp_requestStop ==
  IF ~dsp_running
  THEN UNCHANGED dspVars
  ELSE /\ dsp_running' = FALSE
       /\ cleanup
       /\ UNCHANGED <<_initialized, _sr, _N, _hop, _numBands, _window,
                      _dcBlockerCoeff, _kLoHi, _dcBlockerXprevL, _dcBlockerXprevR>>

dsp_start ==
  IF dsp_running
  THEN UNCHANGED dspVars
  ELSE /\ dsp_running' = TRUE
       /\ _initialized' = FALSE
       /\ cleanup
       /\ UNCHANGED <<_sr, _N, _hop, _numBands, _window, _dcBlockerCoeff, _kLoHi,
                      _dcBlockerXprevL, _dcBlockerXprevR>>

\* Mutant of setSampleRate: the rate is stored but nothing is invalidated.
setSampleRate_keepTables(sr) ==
  IF sr <= 0 \/ sr = _sr
  THEN UNCHANGED dspVars
  ELSE LET newN == nearestPow2Clamped(targetSamples(sr), NLo, NHi) IN
       /\ _sr' = sr
       /\ _N' = newN
       /\ _hop' = IF newN # _N THEN newN \div 2 ELSE _hop
       /\ lastFrames' = <<>>
       /\ UNCHANGED <<dsp_running, _initialized, _numBands, _cfg, _window,
                      _dcBlockerCoeff, _kLoHi, _fifoL, _fifoR, _dcBlockerXprevL,
                      _dcBlockerXprevR, srcL, srcR, allocFails, nRaw>>

setSampleRate(sr) ==
  IF sr <= 0 \/ sr = _sr
  THEN UNCHANGED dspVars
  ELSE LET newN == nearestPow2Clamped(targetSamples(sr), NLo, NHi) IN
       /\ _sr' = sr
       /\ _N' = newN
       /\ _hop' = IF newN # _N THEN newN \div 2 ELSE _hop
       /\ _initialized' = FALSE
       /\ cleanup
       /\ UNCHANGED <<dsp_running, _numBands, _window, _dcBlockerCoeff, _kLoHi,
                      _dcBlockerXprevL, _dcBlockerXprevR>>

setNumBands(n) ==
  IF n \notin {16, 32, 64} \/ n = _numBands
  THEN UNCHANGED dspVars
  ELSE /\ _numBands' = n
       /\ _initialized' = FALSE
       /\ cleanup
       /\ UNCHANGED <<dsp_running, _sr, _N, _hop, _window, _dcBlockerCoeff, _kLoHi,
                      _dcBlockerXprevL, _dcBlockerXprevR>>

\* Mutants of drainLoop: the FIFOs slide by the window instead of the hop;
\* the loop stops one sample early.
RECURSIVE drainLoop_eraseN(_, _, _, _, _)
drainLoop_eraseN(fL, fR, n, hop, acc) ==
  IF Size(fL) >= n /\ Size(fR) >= n
  THEN drainLoop_eraseN(Drop(fL, n), Drop(fR, n), n, hop,
                        Append(acc, [L |-> Take(fL, n), R |-> Take(fR, n)]))
  ELSE [fifoL |-> fL, fifoR |-> fR, frames |-> acc]

RECURSIVE drainLoop_strict(_, _, _, _, _)
drainLoop_strict(fL, fR, n, hop, acc) ==
  IF Size(fL) > n /\ Size(fR) > n
  THEN drainLoop_strict(Drop(fL, hop), Drop(fR, hop), n, hop,
                        Append(acc, [L |-> Take(fL, n), R |-> Take(fR, n)]))
  ELSE [fifoL |-> fL, fifoR |-> fR, frames |-> acc]

\* The while loop of processAvailableStereo: copy N from the front of each
\* FIFO (processOneFrameStereo), then erase hop from the front of each.
RECURSIVE drainLoop(_, _, _, _, _)
drainLoop(fL, fR, n, hop, acc) ==
  IF Size(fL) >= n /\ Size(fR) >= n
  THEN drainLoop(Drop(fL, hop), Drop(fR, hop), n, hop,
                 Append(acc, [L |-> Take(fL, n), R |-> Take(fR, n)]))
  ELSE [fifoL |-> fL, fifoR |-> fR, frames |-> acc]

\* processAvailableStereo on FIFOs fL, fR; allocOk is kiss_fftr_alloc's outcome.
processAvailableStereo(fL, fR, allocOk) ==
  LET doInit == ~_initialized
      cfg1   == IF doInit THEN (IF allocOk THEN _N ELSE NULL) ELSE _cfg
      init1  == IF doInit THEN allocOk ELSE TRUE
      built  == doInit /\ allocOk
  IN
  /\ _cfg' = cfg1
  /\ _initialized' = init1
  /\ allocFails' = IF doInit /\ ~allocOk THEN allocFails + 1 ELSE allocFails
  /\ _window' = IF built THEN _N ELSE _window
  /\ _dcBlockerCoeff' = IF built THEN computeDCBlockerCoeff(_sr) ELSE _dcBlockerCoeff
  /\ _kLoHi' = IF built THEN setupFrequencyBands(_sr, _N, _numBands) ELSE _kLoHi
  /\ IF ~init1 \/ cfg1 = NULL
     THEN /\ _fifoL' = fL
          /\ _fifoR' = fR
          /\ lastFrames' = <<>>
          /\ UNCHANGED <<nRaw, _dcBlockerXprevL, _dcBlockerXprevR>>
     ELSE LET r == drainLoop(fL, fR, _N, _hop, <<>>)
              k == Len(r.frames)
          IN
          /\ _fifoL' = r.fifoL
          /\ _fifoR' = r.fifoR
          /\ lastFrames' = r.frames
          /\ nRaw' = nRaw + k
          /\ _dcBlockerXprevL' = IF k > 0 THEN LastSample(r.frames[k].L) ELSE _dcBlockerXprevL
          /\ _dcBlockerXprevR' = IF k > 0 THEN LastSample(r.frames[k].R) ELSE _dcBlockerXprevR

\* Mutant of onFrames: each FIFO takes its whole batch.
onFrames_noTruncate(left, right, allocOk) ==
  IF ~dsp_running \/ Size(left) = 0 \/ Size(right) = 0
  THEN UNCHANGED dspVars
  ELSE /\ srcL' = srcL + Size(left)
       /\ srcR' = srcR + Size(right)
       /\ processAvailableStereo(Cat(_fifoL, left), Cat(_fifoR, right), allocOk)
       /\ UNCHANGED <<dsp_running, _sr, _N, _hop, _numBands>>

onFrames(left, right, allocOk) ==
  IF ~dsp_running \/ Size(left) = 0 \/ Size(right) = 0
  THEN UNCHANGED dspVars
  ELSE LET nL == Size(left)
           nR == Size(right)
           n  == IF nL < nR THEN nL ELSE nR
       IN
       /\ srcL' = srcL + nL
       /\ srcR' = srcR + nR
       /\ processAvailableStereo(Cat(_fifoL, Take(left, n)),
                                 Cat(_fifoR, Take(right, n)), allocOk)
       /\ UNCHANGED <<dsp_running, _sr, _N, _hop, _numBands>>

(***************************************************************************)
(* AudioCapture.  The record cap holds the object's fields (running, ctx,  *)
(* dev), the device behind them (active: started, so the driver calls      *)
(* dataCallback; rate, channels: what ma_device_init negotiated; pos:      *)
(* frames read from the driver) and the history of what the object did:    *)
(* starts (calls of start; also the handle given to the ctx/dev it         *)
(* allocates), outcome of the latest start, out (signals emitted since the *)
(* latest start was entered), emitted (framesReady emissions so far),      *)
(* stopReturned (requestStop has returned since the latest start was       *)
(* entered) and lateFrames (framesReady emitted while stopReturned).       *)
(***************************************************************************)
CapInit ==
  [running |-> FALSE, ctx |-> NULL, dev |-> NULL, active |-> FALSE,
   rate |-> 0, channels |-> 0, pos |-> 0,
   starts |-> 0, outcome |-> "none", out |-> <<>>, emitted |-> 0,
   stopReturned |-> FALSE, lateFrames |-> FALSE]

FailedOutcomes == {"ctxfail", "devfail", "startfail"}

\* Mutant of cap_requestStop: _running is read with load(), not exchange(false).
cap_requestStop_load(c) ==
  IF ~c.running
  THEN [c EXCEPT !.out = Append(@, "stopped"), !.stopReturned = TRUE]
  ELSE [c EXCEPT !.active = IF c.dev # NULL THEN FALSE ELSE @,
                 !.dev = NULL,
                 !.ctx = NULL,
                 !.out = @ \o <<"status", "stopped">>,
                 !.stopReturned = TRUE]

\* AudioCapture::requestStop
cap_requestStop(c) ==
  IF ~c.running
  THEN [c EXCEPT !.out = Append(@, "stopped"), !.stopReturned = TRUE]
  ELSE [c EXCEPT !.running = FALSE,
                 !.active = IF c.dev # NULL THEN FALSE ELSE @,
                 !.dev = NULL,
                 !.ctx = NULL,
                 !.out = @ \o <<"status", "stopped">>,
                 !.stopReturned = TRUE]

\* start(): the double-start guard, new ma_context, ma_context_init (ok)
cap_start_context(c, ok) ==
  LET c1 == [c EXCEPT !.starts = @ + 1, !.outcome = "pending", !.out = <<>>,
                      !.stopReturned = FALSE, !.lateFrames = FALSE]
  IN
  IF c.running
  THEN [c1 EXCEPT !.out = <<"status">>, !.outcome = "already"]
  ELSE IF ok
  THEN [c1 EXCEPT !.ctx = c1.starts]
  ELSE [c1 EXCEPT !.ctx = NULL, !.out = <<"status", "stopped">>, !.outcome = "ctxfail"]

\* Mutant of cap_start_deviceInit: the failure path forgets the context.
cap_start_deviceInit_keepCtx(c, ok, rate, ch) ==
  IF ok
  THEN [c EXCEPT !.dev = c.starts, !.rate = rate, !.channels = ch, !.pos = 0,
                 !.out = Append(@, "status")]
  ELSE [c EXCEPT !.dev = NULL,
                 !.out = @ \o <<"status", "stopped">>, !.outcome = "devfail"]

\* start(): new ma_device, ma_device_init (ok, negotiating rate and channels),
\* the "Loopback actual" status
cap_start_deviceInit(c, ok, rate, ch) ==
  IF ok
  THEN [c EXCEPT !.dev = c.starts, !.rate = rate, !.channels = ch, !.pos = 0,
                 !.out = Append(@, "status")]
  ELSE [c EXCEPT !.ctx = NULL, !.dev = NULL,
                 !.out = @ \o <<"status", "stopped">>, !.outcome = "devfail"]

\* start(): ma_device_start (ok)
cap_start_deviceStart(c, ok) ==
  IF ok
  THEN [c EXCEPT !.active = TRUE]
  ELSE [c EXCEPT !.ctx = NULL, !.dev = NULL,
                 !.out = @ \o <<"status", "stopped">>, !.outcome = "startfail"]

\* start(): _running.store(true)
cap_start_store(c) == [c EXCEPT !.running = TRUE, !.outcome = "ok"]

\* AudioCapture::start as one call
cap_start(c, okCtx, okDev, okRun, rate, ch) ==
  LET c1 == cap_start_context(c, okCtx)
      c2 == cap_start_deviceInit(c1, okDev, rate, ch)
      c3 == cap_start_deviceStart(c2, okRun)
  IN
  IF c1.outcome # "pending" THEN c1
  ELSE IF c2.outcome # "pending" THEN c2
  ELSE IF c3.outcome # "pending" THEN c3
  ELSE cap_start_store(c3)

\* emit framesReady(left, right)
emitFrames(c, left, right) ==
  [cap |-> [c EXCEPT !.emitted = @ + 1,
                     !.out = Append(@, "framesReady"),
                     !.lateFrames = @ \/ c.stopReturned],
   batch |-> <<[id |-> c.emitted + 1, left |-> left, right |-> right]>>]

\* AudioCapture::emitStereo: channel 0 and channel 1 of the interleaved
\* input, channel 0 twice when the device is mono
emitStereo(c, frames, channels) ==
  IF ~c.running
  THEN [cap |-> c, batch |-> <<>>]
  ELSE emitFrames([c EXCEPT !.pos = @ + frames],
                  Batch("L", c.pos, frames),
                  IF channels = 1 THEN Batch("L", c.pos, frames)
                                  ELSE Batch("R", c.pos, frames))

\* Mutant of dataCallback: a callback without input returns without emitting.
dataCallback_dropNull(c, frameCount, hasInput) ==
  IF ~c.running \/ frameCount = 0 \/ ~hasInput
  THEN [cap |-> c, batch |-> <<>>]
  ELSE emitStereo(c, frameCount, IF c.channels > 0 THEN c.channels ELSE 2)

\* AudioCapture::dataCallback; hasInput is pInput # nullptr
dataCallback(c, frameCount, hasInput) ==
  IF ~c.running \/ frameCount = 0
  THEN [cap |-> c, batch |-> <<>>]
  ELSE LET ch == IF c.channels > 0 THEN c.channels ELSE 2 IN
       IF ~hasInput
       THEN emitFrames(c, <<Run("zero", 1, frameCount)>>, <<Run("zero", 1, frameCount)>>)
       ELSE emitStereo(c, frameCount, ch)

(***************************************************************************)
(* Qt: queued connections and QThread                                      *)
(***************************************************************************)
NoEvent == [kind |-> "none", id |-> 0, left |-> <<>>, right |-> <<>>, arg |-> 0]
FramesEvent(b) == [kind |-> "frames", id |-> b.id, left |-> b.left, right |-> b.right, arg |-> 0]
BandsEvent(n) == [kind |-> "bands", id |-> 0, left |-> <<>>, right |-> <<>>, arg |-> n]

\* Mutants of the framesReady connection: events delivered newest first;
\* Qt::BlockingQueuedConnection, where the emitter waits for the slot.
PostEvent_front(q, ev) == <<ev>> \o q
CanPost_blocking(q, busy) == q = <<>> /\ ~busy

\* Qt::QueuedConnection: the call is appended to the receiver thread's
\* posted events, whatever the receiver is doing.
PostEvent(q, ev) == Append(q, ev)
CanPost(q, busy) == TRUE

(***************************************************************************)
(* AudioProcessor::setupFrequencyBands, the table itself.  Frequencies are *)
(* floats in the code; here they are fixed-point numbers with QBits        *)
(* fractional bits (Hz * QOne), multiplied without leaving 32 bits.        *)
(***************************************************************************)
QBits == 15
QOne == 2 ^ QBits

Max(a, b) == IF a > b THEN a ELSE b
Min(a, b) == IF a < b THEN a ELSE b

\* a * b of two fixed-point numbers
mulQ(a, b) ==
  LET ah == a \div QOne
      al == a % QOne
      bh == b \div QOne
      bl == b % QOne
  IN ah * bh * QOne + ah * bl + al * bh + (al * bl) \div QOne

\* std::sqrt: the largest y in lo..hi with y * y <= x
RECURSIVE sqrtSearch(_, _, _)
sqrtSearch(x, lo, hi) ==
  IF lo >= hi THEN lo
  ELSE LET mid == (lo + hi + 1) \div 2 IN
       IF mulQ(mid, mid) <= x THEN sqrtSearch(x, mid, hi)
                              ELSE sqrtSearch(x, lo, mid - 1)

sqrtQ(x) == sqrtSearch(x, 0, 181 * QOne)

\* std::pow(r, float(i) / float(nb)) for nb a power of two and 0 <= i <= nb:
\* r^(i/nb) = s^(2i/nb) with s = sqrt(r)
RECURSIVE powFrac(_, _, _)
powFrac(r, i, nb) ==
  IF i = 0 THEN QOne
  ELSE IF i = nb THEN r
  ELSE LET s == sqrtQ(r) IN
       IF 2 * i >= nb THEN mulQ(s, powFrac(s, 2 * i - nb, nb))
                      ELSE powFrac(s, 2 * i, nb)

\* fMax = std::min(18000.0f, 0.98f * fNyq), fNyq = 0.5f * _sr
fMaxQ(sr) ==
  IF 49 * sr >= 1800000 THEN 18000 * QOne
  ELSE ((49 * sr) \div 100) * QOne + (((49 * sr) % 100) * QOne) \div 100

\* edges[i] = fMin * std::pow(fMax / fMin, float(i) / float(_numBands)),
\* fMin = 20, i = 0 .. _numBands (here edges[i + 1])
bandEdges(sr, nb) ==
  LET ratio == fMaxQ(sr) \div 20 IN
  [j \in 1..(nb + 1) |-> 20 * powFrac(ratio, j - 1, nb)]

\* hzToK: clamp(floor(f * _N / _sr), 1, max(2, _N/2)), _N a power of two
\* not above QOne
hzToK(f, sr, n) == Clamp(f \div (sr * (QOne \div n)), 1, Max(2, n \div 2))

\* The state of setupFrequencyBands before its band loop
bandsBegin(sr, n, nb) ==
  [sr |-> sr, N |-> n, numBands |-> nb, edges |-> bandEdges(sr, nb),
   i |-> 0, kLo |-> <<>>, kHi |-> <<>>]

\* One iteration of the band loop
bandsStep(b) ==
  LET k0 == hzToK(b.edges[b.i + 1], b.sr, b.N)
      k1 == hzToK(b.edges[b.i + 2], b.sr, b.N)
      hi == IF k1 <= k0 THEN Min(k0 + 1, b.N \div 2) ELSE k1
  IN [b EXCEPT !.i = @ + 1, !.kLo = Append(@, k0), !.kHi = Append(@, hi)]

\* No table being built
BandsIdle ==
  [sr |-> DefaultSr, N |-> DefaultN, numBands |-> DefaultNumBands, edges |-> <<>>,
   i |-> 0, kLo |-> <<>>, kHi |-> <<>>]

(***************************************************************************)
(* UdpSrSender.  The record udp holds the sender's fields: elapsed         *)
(* (_throttle.elapsed(), ms), dst and port, frame (_frame), fast and slow  *)
(* (_fast, _slow, in millionths); and what it has done: sent (datagrams    *)
(* written), last (the latest datagram), reads (the index range summed for *)
(* each of its 16 bytes), sinceSend (ms since the latest datagram) and gap *)
(* (ms between the latest two), arg and outcome (argument and result of    *)
(* the latest sendFromBins call), throttled (calls dropped by the throttle *)
(* since the latest datagram), varied (accepted calls whose vector was not all-zero) and    *)
(* zeroRun (accepted all-zero calls since the last other one).             *)
(* Bin values are in thousandths, packet levels in thousandths of a level. *)
(***************************************************************************)
TargetAddr == "192.168.50.165"
NoAddr == ""
NoPacket == [sampleRaw |-> -1, sampleSmth |-> -1, samplePeak |-> -1,
             frameCounter |-> -1, fftResult |-> <<>>, to |-> NoAddr, port |-> 0]

RECURSIVE SumSeq(_, _, _)
SumSeq(s, a, b) == IF a > b THEN 0 ELSE s[a] + SumSeq(s, a + 1, b)

\* std::clamp(v, 0.0f, 1.0f) of a bin
clamp01(v) == Clamp(v, 0, 1000)

\* mean of the bins (0 for an empty vector), in millionths
binsMean(bins) ==
  IF Len(bins) = 0 THEN 0 ELSE (SumSeq(bins, 1, Len(bins)) * 1000) \div Len(bins)

\* std::log10 of x / 1000 for x >= 1, in thousandths: the decade, then 8
\* binary digits of the mantissa's logarithm by repeated squaring
RECURSIVE log10Frac(_, _, _)
log10Frac(m, bit, n) ==
  IF n = 0 THEN 0
  ELSE LET sq == (m * m) \div 1000 IN
       IF sq >= 10000 THEN bit + log10Frac(sq \div 10, bit \div 2, n - 1)
                      ELSE log10Frac(sq, bit \div 2, n - 1)

RECURSIVE log10Milli(_)
log10Milli(x) ==
  IF x >= 10000 THEN 1000 + log10Milli(x \div 10)
  ELSE IF x < 1000 THEN log10Milli(x * 10) - 1000
  ELSE (log10Frac(x, 512, 8) * 1000) \div 1024

\* rdb = 10 * log10(max(_fast / max(_slow, 1e-6), 1e-6)), in thousandths of a
\* dB; ratios below 0.001 are taken as 0.001 (-30 dB, far below the -6 dB
\* where v01 is clamped to 0)
agcDb(fast, slow) ==
  LET ratio == (fast * 1000) \div Max(slow, 1) IN
  10 * log10Milli(Max(ratio, 1))

\* _frame++ on a quint8
nextFrame_wide(f) == f + 1

nextFrame(f) == (f + 1) % 256

\* k0 and k1 of segment i (0..15) of N bins
segLo(i, n) == (i * n) \div 16

segHi_inclusive(i, n) ==
  LET k1 == ((i + 1) * n) \div 16 IN IF k1 < segLo(i, n) THEN segLo(i, n) ELSE k1

segHi(i, n) ==
  LET k1 == ((i + 1) * n) \div 16 - 1 IN IF k1 < segLo(i, n) THEN segLo(i, n) ELSE k1

\* bins[k], k counted from 0; outside the vector the read is not defined
binAt(bins, k) == IF k + 1 \in 1..Len(bins) THEN bins[k + 1] ELSE 0

RECURSIVE segSum(_, _, _)
segSum(bins, k, k1) ==
  IF k > k1 THEN 0 ELSE clamp01(binAt(bins, k)) + segSum(bins, k + 1, k1)

\* std::lround(avg * 255.0f) for avg = acc / cnt, acc in thousandths
levelByte(acc, cnt) == (2 * 255 * acc + 1000 * cnt) \div (2 * 1000 * cnt)

\* p.fftResult[i]
fftByte(bins, i) ==
  IF Len(bins) = 0 THEN 0
  ELSE LET k0 == segLo(i, Len(bins))
           k1 == segHi(i, Len(bins))
       IN levelByte(segSum(bins, k0, k1), k1 - k0 + 1)

\* the indices read for p.fftResult[i]
fftRead(bins, i) ==
  IF Len(bins) = 0 THEN <<>> ELSE <<segLo(i, Len(bins)), segHi(i, Len(bins))>>

IsZeroVector(bins) == \A k \in 1..Len(bins) : bins[k] = 0

\* The state after MainWindow's constructor: the sender constructed (its
\* throttle timer started) and setTarget called.
UdpInit ==
  [elapsed |-> 0, dst |-> TargetAddr, port |-> TargetPort, frame |-> 0,
   fast |-> 0, slow |-> SlowInit,
   sent |-> 0, last |-> NoPacket, reads |-> <<>>, sinceSend |-> 0, gap |-> 0,
   arg |-> <<>>, outcome |-> "none", throttled |-> 0, varied |-> 0, zeroRun |-> 0]

\* The throttle's minimum interval, as a parameter of sendFromBins
sendFromBinsEvery(u, bins, interval, restartAlways) ==
  LET called == [u EXCEPT !.arg = bins] IN
  IF u.elapsed < interval
  THEN [called EXCEPT !.outcome = "throttled", !.throttled = @ + 1,
                      !.elapsed = IF restartAlways THEN 0 ELSE @]
  ELSE IF u.dst = NoAddr
  THEN [called EXCEPT !.outcome = "notarget", !.elapsed = 0]
  ELSE LET mean == binsMean(bins)
           fast == (4 * u.fast + 6 * mean) \div 10
           slow == (98 * u.slow + 2 * mean) \div 100
           rdb  == agcDb(fast, slow)
           p == [sampleRaw    |-> (Clamp(mean, 0, 1000000) * 255) \div 1000,
                 sampleSmth   |-> Clamp(((rdb + 6000) * 255) \div 18, 0, 255000),
                 samplePeak   |-> IF rdb > 9000 THEN 1 ELSE 0,
                 frameCounter |-> u.frame,
                 fftResult    |-> [i \in 1..16 |-> fftByte(bins, i - 1)],
                 to           |-> u.dst,
                 port         |-> u.port]
       IN [called EXCEPT !.outcome = "sent",
                         !.elapsed = 0,
                         !.fast = fast,
                         !.slow = slow,
                         !.frame = nextFrame(u.frame),
                         !.sent = @ + 1,
                         !.last = p,
                         !.reads = [i \in 1..16 |-> fftRead(bins, i - 1)],
                         !.gap = u.sinceSend,
                         !.sinceSend = 0,
                         !.throttled = 0,
                         !.varied = IF IsZeroVector(bins) THEN @ ELSE @ + 1,
                         !.zeroRun = IF IsZeroVector(bins) THEN @ + 1 ELSE 0]

\* Mutants of sendFromBins: the timer is restarted by every call; the
\* interval is 10 ms.
sendFromBins_restartAlways(u, bins) == sendFromBinsEvery(u, bins, ThrottleMs, TRUE)
sendFromBins_fast(u, bins) == sendFromBinsEvery(u, bins, 10, FALSE)

\* UdpSrSender::sendFromBins
sendFromBins(u, bins) == sendFromBinsEvery(u, bins, ThrottleMs, FALSE)

(***************************************************************************)
(* AdvancedAudioProcessor: onset detection.  Magnitudes and flux are in    *)
(* thousandths.  The percussive spectrum is kept as one magnitude          *)
(* (|L[k]| + |R[k]|) per region of bins: lf for 1 <= k < _percN/8, mid for *)
(* _percN/8 <= k < _percN/4, hf for _percN/4 <= k < _percN/2.              *)
(***************************************************************************)
FluxThreshold == 100
OnsetCooldown == 10

NoMagnitudes == [lf |-> 0, mid |-> 0, hf |-> 0]

\* setupOnsetDetection, and no step taken since
OnsInit ==
  [_onsetTimer |-> 0, _prevPercMagnitudes |-> NoMagnitudes,
   _onsetStrength |-> <<0, 0, 0, 0>>, _isOnset |-> FALSE,
   steps |-> 0, onsets |-> 0, lastOnset |-> 0, prevOnset |-> 0,
   transients |-> 0, firstTransient |-> 0, lastTransient |-> 0]

\* if (diff > 0) flux += diff
positiveDiff(cur, prev) == IF cur - prev > 0 THEN cur - prev ELSE 0

\* Mutant of detectOnsets: the counter is decremented after the test.
detectOnsets_lateDecrement(o, mag) ==
  LET hfFlux == positiveDiff(mag.hf, o._prevPercMagnitudes.hf)
      lfFlux == positiveDiff(mag.lf, o._prevPercMagnitudes.lf)
      totalFlux == hfFlux + lfFlux
      fire == o._onsetTimer = 0 /\ totalFlux > FluxThreshold
  IN [o EXCEPT !._prevPercMagnitudes = mag,
               !._onsetStrength = <<totalFlux, hfFlux, lfFlux, 0>>,
               !._isOnset = fire,
               !._onsetTimer = IF fire THEN OnsetCooldown
                               ELSE IF @ > 0 THEN @ - 1 ELSE @]

\* AdvancedAudioProcessor::detectOnsets on the spectrum mag
detectOnsets(o, mag) ==
  LET timer == IF o._onsetTimer > 0 THEN o._onsetTimer - 1 ELSE o._onsetTimer
      hfFlux == positiveDiff(mag.hf, o._prevPercMagnitudes.hf)
      lfFlux == positiveDiff(mag.lf, o._prevPercMagnitudes.lf)
      totalFlux == hfFlux + lfFlux
      fire == timer = 0 /\ totalFlux > FluxThreshold
  IN [o EXCEPT !._prevPercMagnitudes = mag,
               !._onsetStrength = <<totalFlux, hfFlux, lfFlux, 0>>,
               !._isOnset = fire,
               !._onsetTimer = IF fire THEN OnsetCooldown ELSE timer]

(***************************************************************************)
(* MultiResolutionVisualizerWidget: the history deques and the routines    *)
(* that draw them.  onMultiResolutionData pushes one entry to every        *)
(* history and trims each the same way, so one length stands for all of    *)
(* them; resizeEvent gives every drawing rectangle the same width.         *)
(* std::deque::size() is a size_t: an index computed from it wraps.  Every *)
(* operand here is below 2^11, so a 30-bit size_t puts each index on the   *)
(* same side of every comparison as the 64-bit one does.                   *)
(***************************************************************************)
MAX_HISTORY == 200
MinimumWidth == 1200
SizeTBits == 30
sizeT(x) == x % (2 ^ SizeTBits)

\* the state after the constructor: empty histories, null rectangles
VizInit == [size |-> 0, rectWidth |-> 0, painted |-> FALSE,
            bassReads |-> {}, spectralReads |-> {}, onsetReads |-> {}]

\* onMultiResolutionData: push_back, then pop_front while size > MAX_HISTORY
onMultiResolutionData(v) ==
  LET pushed == v.size + 1 IN
  [v EXCEPT !.size = IF pushed > MAX_HISTORY THEN MAX_HISTORY ELSE pushed,
            !.painted = FALSE, !.bassReads = {}, !.spectralReads = {}, !.onsetReads = {}]

\* resizeEvent: cellW = width / 4 is the width of every rectangle
resizeEvent(v, width) ==
  [v EXCEPT !.rectWidth = width \div 4,
            !.painted = FALSE, !.bassReads = {}, !.spectralReads = {}, !.onsetReads = {}]

\* history[history.size() - width + i]
histIndex(size, width, i) == sizeT(size - width + i)

\* drawBassEvolution: the indices of _bassHistory it reads
drawBassEvolution(size, width) ==
  IF size = 0 THEN {}
  ELSE {histIndex(size, width, t) : t \in 0 .. Min(width, size) - 1}

\* drawSpectralEvolution, drawOnsetDetection: the indices of the history read
drawLineGraph(size, width) ==
  IF size < 2 THEN {}
  ELSE UNION {{histIndex(size, width, i - 1), histIndex(size, width, i)} :
                i \in 1 .. Min(width, size) - 1}

\* paintEvent
paintEvent(v) ==
  [v EXCEPT !.painted = TRUE,
            !.bassReads = drawBassEvolution(v.size, v.rectWidth),
            !.spectralReads = drawLineGraph(v.size, v.rectWidth),
            !.onsetReads = drawLineGraph(v.size, v.rectWidth)]

(***************************************************************************)
(* AudioProcessor: what one pass of processAvailableStereo's loop emits.   *)
(* Band magnitudes and control values are in thousandths.                  *)
(***************************************************************************)
ControlBins == 16

MaxOf(s) == IF s = <<>> THEN 0 ELSE CHOOSE x \in {s[i] : i \in DOMAIN s} :
                                      \A j \in DOMAIN s : s[j] <= x

\* downmixToN: dst bin i (from 0) averages src[a .. z-1],
\* a = floor(i/dstN * srcN), z = ceil((i+1)/dstN * srcN)
downmixToN(src, dstN) ==
  LET srcN == Len(src) IN
  IF srcN <= 0 \/ dstN <= 0 THEN [i \in 1 .. dstN |-> 0]
  ELSE [i \in 1 .. dstN |->
          LET a == Max(0, ((i - 1) * srcN) \div dstN)
              z == Min(srcN, (i * srcN + dstN - 1) \div dstN)
              cnt == z - a
          IN IF cnt > 0 THEN SumSeq(src, a + 1, z) \div cnt ELSE 0]

\* if (mx > 0) v = clamp(v * (1/mx), 0, 1)
normalizeBins(bins) ==
  LET mx == MaxOf(bins) IN
  IF mx > 0 THEN [i \in DOMAIN bins |-> Clamp((bins[i] * 1000) \div mx, 0, 1000)]
  ELSE bins

\* The block after processOneFrameStereo: pairs of a 32-band vector averaged
\* over L and R and normalized; zeros when the band count is not 32.
pairBins(bandsL, bandsR) ==
  IF Len(bandsL) = 32 /\ Len(bandsR) = 32
  THEN normalizeBins([i \in 1 .. ControlBins |->
         ((bandsL[2 * i - 1] + bandsL[2 * i]) \div 2
          + (bandsR[2 * i - 1] + bandsR[2 * i]) \div 2) \div 2])
  ELSE [i \in 1 .. ControlBins |-> 0]

Signal(sig, val) == [sig |-> sig, val |-> val]

\* emitResults: binsReadyRaw, binsReady (from _bandsL), levelsReady
emitResults(bandsL, bandsR) ==
  << Signal("binsReadyRaw", <<bandsL, bandsR>>),
     Signal("binsReady", normalizeBins(downmixToN(bandsL, ControlBins))),
     Signal("levelsReady", <<>>) >>

\* One pass of the loop in processAvailableStereo for a frame whose band
\* vectors are bandsL, bandsR: processOneFrameStereo (ending in emitResults),
\* then the block that emits binsReady again.
loopPass(bandsL, bandsR) ==
  emitResults(bandsL, bandsR) \o << Signal("binsReady", pairBins(bandsL, bandsR)) >>

EmInit == [frames |-> 0, bandsL |-> <<>>, bandsR |-> <<>>, out |-> <<>>]

(***************************************************************************)
(* AdvancedAudioProcessor: the frequency mappings of its four resolutions. *)
(* Frequencies are fixed-point Hz with QBits fraction bits.                *)
(***************************************************************************)
_bassN == 4096
_harmonicN == 1024
_percN == 256
_macroN == 8192

Resolutions == {"bass", "harmonic", "percussive", "macro"}

ResolutionN(res) ==
  CASE res = "bass" -> _bassN
    [] res = "harmonic" -> _harmonicN
    [] res = "percussive" -> _percN
    [] res = "macro" -> _macroN

\* std::cbrt: the largest y in lo..hi with y * y * y <= x
RECURSIVE cbrtSearch(_, _, _)
cbrtSearch(x, lo, hi) ==
  IF lo >= hi THEN lo
  ELSE LET mid == (lo + hi + 1) \div 2 IN
       IF mulQ(mulQ(mid, mid), mid) <= x THEN cbrtSearch(x, mid, hi)
                                         ELSE cbrtSearch(x, lo, mid - 1)

cbrtQ(x) == cbrtSearch(x, 0, 8 * QOne)

\* r * c * c .. (n factors c)
RECURSIVE mulTimes(_, _, _)
mulTimes(r, c, n) == IF n = 0 THEN r ELSE mulTimes(mulQ(r, c), c, n - 1)

\* std::pow(r, float(i) / 12.0f) for 0 <= i <= 12:
\* r^(i/12) = r^((i div 3)/4) * (r^(1/12))^(i mod 3)
powTwelfth(r, i) ==
  mulTimes(powFrac(r, i \div 3, 4), cbrtQ(powFrac(r, 1, 4)), i % 3)

\* setupBassFrequencyMapping: f = fMin + i * fStep, fMin = 20, fMax = 400
bassEdges == [j \in 1 .. 17 |-> 20 * QOne + (j - 1) * (((400 - 20) * QOne) \div 16)]

\* setupHarmonicFrequencyMapping: f = fMin * pow(fMax / fMin, i / 32),
\* fMin = 80, fMax = 18000
harmonicEdges == [j \in 1 .. 33 |-> 80 * powFrac((18000 \div 80) * QOne, j - 1, 32)]

\* setupPercussiveFrequencyMapping: edges
percEdges ==
  [j \in 1 .. 9 |-> <<0, 200, 500, 1000, 2000, 4000, 8000, 12000, 20000>>[j] * QOne]

\* setupMacroFrequencyMapping: f = fMin * pow(fMax / fMin, i / 12),
\* fMin = 50, fMax = 16000
macroEdges == [j \in 1 .. 13 |-> 50 * powTwelfth((16000 \div 50) * QOne, j - 1)]

ResolutionEdges(res) ==
  CASE res = "bass" -> bassEdges
    [] res = "harmonic" -> harmonicEdges
    [] res = "percussive" -> percEdges
    [] res = "macro" -> macroEdges

\* int(f * N / _sr), N a power of two not above QOne
binOf(f, n, sr) == f \div (sr * (QOne \div n))

\* No mapping being built
MpIdle == [res |-> "none", sr |-> 0, i |-> 0, kLo |-> <<>>, kHi |-> <<>>]

\* The state of a setup...FrequencyMapping before its loop
mappingBegin(res, sr) == [res |-> res, sr |-> sr, i |-> 0, kLo |-> <<>>, kHi |-> <<>>]

\* One iteration of the loop: KLo[i] = max(1, int(f0 * N / _sr)),
\* KHi[i] = min(N/2, int(f1 * N / _sr))
mappingStep(t) ==
  LET n == ResolutionN(t.res)
      f0 == ResolutionEdges(t.res)[t.i + 1]
      f1 == ResolutionEdges(t.res)[t.i + 2]
  IN [t EXCEPT !.i = @ + 1,
               !.kLo = Append(@, Max(1, binOf(f0, n, t.sr))),
               !.kHi = Append(@, Min(n \div 2, binOf(f1, n, t.sr)))]

\* std::pow(2.0f, semitone / 12.0f) for -12 <= semitone < 12
semitoneRatio(semitone) ==
  IF semitone >= 0 THEN powTwelfth(2 * QOne, semitone)
  ELSE powTwelfth(2 * QOne, semitone + 12) \div 2

\* A4 * std::pow(2.0f, octave + semitone/12.0f), A4 = 440, semitone = c - 9
pitchFreq(c, octave) ==
  IF octave >= 0 THEN 440 * (2 ^ octave) * semitoneRatio(c - 9)
  ELSE (440 * semitoneRatio(c - 9)) \div (2 ^ (0 - octave))

\* setupChromagramMapping: the octave loop of class c from octave on, with
\* its break; klo, khi are _chromaKLo[c], _chromaKHi[c] so far
RECURSIVE chromaOctaves(_, _, _, _, _)
chromaOctaves(c, sr, octave, klo, khi) ==
  IF octave > 7 THEN [lo |-> klo, hi |-> khi]
  ELSE LET freq == pitchFreq(c, octave) IN
       IF freq > (sr \div 2) * QOne THEN [lo |-> klo, hi |-> khi]
       ELSE LET k == binOf(freq, _harmonicN, sr) IN
            IF k >= 1 /\ k < _harmonicN \div 2
            THEN chromaOctaves(c, sr, octave + 1, Min(klo, k), Max(khi, k + 2))
            ELSE chromaOctaves(c, sr, octave + 1, klo, khi)

\* One iteration of setupChromagramMapping's loop over the pitch classes
chromaStep(t) ==
  LET r == chromaOctaves(t.i, t.sr, 1, _harmonicN \div 2, 1) IN
  [t EXCEPT !.i = @ + 1, !.kLo = Append(@, r.lo), !.kHi = Append(@, r.hi)]

\* extractMusicalFeatures: the bins of the harmonic spectrum summed into a
\* class whose range is klo, khi
chromaBins(klo, khi) == {k \in klo .. khi - 1 : k < _harmonicN \div 2 + 1}

(***************************************************************************)
(* AdvancedAudioProcessor: life cycle, FFT configurations and the analysis *)
(* loop.  A configuration is the number of the kiss_fftr_alloc call that   *)
(* returned it; live holds the ones allocated and not freed.  A band       *)
(* vector is known by the epoch of the mapping and spectrum it was last    *)
(* computed with, an epoch being the number of rate changes so far.        *)
(***************************************************************************)
NoEpoch == -1
AdvHop == _harmonicN \div 4

\* the order in which initialize allocates
AllocOrder == <<"harmonic", "bass", "percussive", "macro">>

\* if (_frameCount % period == 0) analyze...
AnalysisPeriod(res) ==
  CASE res = "percussive" -> 1
    [] res = "harmonic" -> 2
    [] res = "bass" -> 4
    [] res = "macro" -> 8

AdvInit ==
  [_stop |-> FALSE, _initialized |-> FALSE, _sr |-> 48000, _frameCount |-> 0,
   cfg |-> [r \in Resolutions |-> NULL], fifo |-> 0,
   epoch |-> 0, mapEpoch |-> NoEpoch, bandEpoch |-> [r \in Resolutions |-> NoEpoch],
   allocs |-> 0, live |-> {}, doubleFree |-> FALSE, nullFft |-> FALSE,
   callFailed |-> {}, callEnough |-> FALSE, out |-> <<>>,
   calls |-> 0, fails |-> 0]

\* what the latest call did: nothing yet
AdvEnter(a) == [a EXCEPT !.callFailed = {}, !.callEnough = FALSE, !.out = <<>>]

\* AdvancedAudioProcessor::cleanup
adv_cleanup(a) ==
  LET held == {a.cfg[r] : r \in Resolutions} \ {NULL} IN
  [a EXCEPT !.cfg = [r \in Resolutions |-> NULL],
            !.live = @ \ held,
            !.doubleFree = @ \/ ~(held \subseteq a.live)]

\* AdvancedAudioProcessor::setSampleRate
adv_setSampleRate(a, sr) ==
  IF sr # a._sr
  THEN [AdvEnter(a) EXCEPT !._sr = sr, !._initialized = FALSE, !.epoch = @ + 1]
  ELSE AdvEnter(a)

\* AdvancedAudioProcessor::start
adv_start(a) ==
  [adv_cleanup([AdvEnter(a) EXCEPT !._stop = FALSE, !._initialized = FALSE])
     EXCEPT !.fifo = 0, !._frameCount = 0]

\* AdvancedAudioProcessor::requestStop
adv_requestStop(a) ==
  [adv_cleanup([AdvEnter(a) EXCEPT !._stop = TRUE]) EXCEPT !.fifo = 0]

\* how many of the first j allocations in AllocOrder succeed
RECURSIVE AllocatedBefore(_, _)
AllocatedBefore(ok, j) ==
  IF j = 0 THEN 0
  ELSE AllocatedBefore(ok, j - 1) + (IF AllocOrder[j] \in ok THEN 1 ELSE 0)

OrderOf(res) == CHOOSE j \in DOMAIN AllocOrder : AllocOrder[j] = res

\* AdvancedAudioProcessor::initialize; ok is the set of resolutions whose
\* kiss_fftr_alloc succeeds
adv_initialize(a, ok) ==
  IF a._initialized THEN a
  ELSE LET handle(r) == IF r \in ok THEN a.allocs + AllocatedBefore(ok, OrderOf(r))
                                    ELSE NULL
           a1 == [a EXCEPT !.cfg = [r \in Resolutions |-> handle(r)],
                           !.live = @ \cup ({handle(r) : r \in Resolutions} \ {NULL}),
                           !.allocs = @ + Cardinality(ok)]
       IN
       IF ok # Resolutions
       THEN [a1 EXCEPT !.callFailed = Resolutions \ ok]
       ELSE [a1 EXCEPT !.mapEpoch = a.epoch, !._initialized = TRUE]

\* One pass of processMultiResolution's loop: the analyses that are due,
\* emitAdvancedResults, the FIFOs advanced by the hop
adv_pass(a) ==
  LET due == {r \in Resolutions : a._frameCount % AnalysisPeriod(r) = 0}
      bands == [r \in Resolutions |-> IF r \in due THEN a.mapEpoch ELSE a.bandEpoch[r]]
  IN [a EXCEPT !.bandEpoch = bands,
               !.nullFft = @ \/ (\E r \in due : a.cfg[r] = NULL),
               !.out = Append(@, bands),
               !.fifo = @ - AdvHop,
               !._frameCount = @ + 1]

RECURSIVE adv_loop(_)
adv_loop(a) ==
  IF ~a._stop /\ a.fifo >= _macroN THEN adv_loop(adv_pass(a)) ELSE a

\* AdvancedAudioProcessor::processMultiResolution
processMultiResolution(a, ok) ==
  LET a1 == adv_initialize(a, ok)
      a2 == [a1 EXCEPT !.callEnough = ~a1._stop /\ a1.fifo >= _macroN]
  IN IF ~a1._initialized THEN a2 ELSE adv_loop(a2)

\* AdvancedAudioProcessor::onFrames with left.size() = nL, right.size() = nR
adv_onFrames(a, nL, nR, ok) ==
  IF a._stop \/ nL = 0 \/ nR = 0 THEN AdvEnter(a)
  ELSE processMultiResolution([AdvEnter(a) EXCEPT !.fifo = @ + Min(nL, nR)], ok)

ExtInit == bt = BandsIdle /\ udp = UdpInit /\ ons = OnsInit /\ viz = VizInit /\ em = EmInit /\ mp = MpIdle /\ adv = AdvInit

(***************************************************************************)
(* SpecDsp: the slots of one AudioProcessor, called in any order           *)
(***************************************************************************)
DspInit ==
  /\ dsp_running = FALSE
  /\ _initialized = FALSE
  /\ _sr = DefaultSr
  /\ _N = DefaultN
  /\ _hop = DefaultHop
  /\ _numBands = DefaultNumBands
  /\ _cfg = NULL
  /\ _window = 0
  /\ _dcBlockerCoeff = DefaultDcCoeff
  /\ _kLoHi = NoTable
  /\ _fifoL = <<>>
  /\ _fifoR = <<>>
  /\ _dcBlockerXprevL = ZeroSample
  /\ _dcBlockerXprevR = ZeroSample
  /\ srcL = 0
  /\ srcR = 0
  /\ allocFails = 0
  /\ nRaw = 0
  /\ lastFrames = <<>>

CallerInit == reconfigs = 0 /\ lastCall = "" /\ prevCall = "" /\ calls = 0

PipeInit ==
  /\ mw_running = FALSE
  /\ at_pc = "off" /\ at_exited = FALSE
  /\ dt_pc = "off" /\ dt_exited = FALSE
  /\ dt_cur = NoEvent
  /\ dspQ = <<>>
  /\ guiQ = <<>>
  /\ dsp_raced = FALSE
  /\ delivered = <<>>
  /\ startsAccepted = 0
  /\ dspStartCalls = 0
  /\ clicks = 0
  /\ applies = 0

\* The state after MainWindow's constructor.
Init == DspInit /\ CallerInit /\ cap = CapInit /\ PipeInit /\ ExtInit

SeqInit == Init

CallStart == dsp_start /\ UNCHANGED <<callerVars, cap, pipeVars, extVars>>

CallRequestStop == dsp_requestStop /\ UNCHANGED <<callerVars, cap, pipeVars, extVars>>

CallSetSampleRate ==
  \E sr \in Rates :
    LET effective == sr > 0 /\ sr # _sr IN
    /\ effective => reconfigs < MaxReconfig
    /\ setSampleRate(sr)
    /\ reconfigs' = IF effective THEN reconfigs + 1 ELSE reconfigs
    /\ UNCHANGED <<lastCall, prevCall, calls, cap, pipeVars, extVars>>

CallSetNumBands ==
  \E n \in BandChoices :
    LET effective == n \in {16, 32, 64} /\ n # _numBands IN
    /\ effective => reconfigs < MaxReconfig
    /\ setNumBands(n)
    /\ reconfigs' = IF effective THEN reconfigs + 1 ELSE reconfigs
    /\ UNCHANGED <<lastCall, prevCall, calls, cap, pipeVars, extVars>>

CallOnFrames ==
  \E shape \in BatchShapes, allocOk \in BOOLEAN :
    /\ srcL + shape[1] <= MaxSamples
    /\ srcR + shape[2] <= MaxSamples
    /\ ~allocOk => allocFails < MaxAllocFail
    /\ UNCHANGED <<callerVars, cap, pipeVars, extVars>>
    /\ onFrames(Batch("L", srcL, shape[1]), Batch("R", srcR, shape[2]), allocOk)

DspNext ==
  \/ CallStart
  \/ CallRequestStop
  \/ CallSetSampleRate
  \/ CallSetNumBands
  \/ CallOnFrames

SpecDsp == SeqInit /\ [][DspNext]_vars

(***************************************************************************)
(* Spec: MainWindow, its two worker threads and the driver's callback      *)
(* thread.  The GUI thread runs onStart/onStop/onApplyBins and the calls   *)
(* queued to it; _audioThread runs AudioCapture::start (connected to       *)
(* QThread::started) and then its event loop; _dspThread runs              *)
(* AudioProcessor::start and then the slots queued to _dsp; the driver     *)
(* calls dataCallback while the device is started.                         *)
(***************************************************************************)

\* QThread::start(): nothing if the thread is still running, otherwise the
\* thread is launched with its exit request cleared.
QThreadStart(pc) == IF pc = "off" THEN "started" ELSE pc
QThreadStartExited(pc, exited) == IF pc = "off" THEN FALSE ELSE exited

\* MainWindow::onStart
OnStart ==
  /\ ~mw_running
  /\ clicks < MaxClicks
  /\ clicks' = clicks + 1
  /\ mw_running' = TRUE
  /\ startsAccepted' = startsAccepted + 1
  /\ at_pc' = QThreadStart(at_pc)
  /\ at_exited' = QThreadStartExited(at_pc, at_exited)
  /\ dt_pc' = QThreadStart(dt_pc)
  /\ dt_exited' = QThreadStartExited(dt_pc, dt_exited)
  /\ UNCHANGED <<extVars, dspVars, callerVars, cap, dt_cur, dspQ, guiQ, dsp_raced,
                 delivered, dspStartCalls, applies>>

\* MainWindow::onStop: both quit() calls, then both requestStop() calls made
\* directly on the GUI thread; the stopped() signals they emit reach
\* QThread::quit directly as well.
OnStop ==
  /\ mw_running
  /\ clicks < MaxClicks
  /\ clicks' = clicks + 1
  /\ mw_running' = FALSE
  /\ at_exited' = TRUE
  /\ dt_exited' = TRUE
  /\ cap' = cap_requestStop(cap)
  /\ dsp_requestStop
  /\ dsp_raced' = (dsp_raced \/ (dt_pc = "busy" /\ dsp_running))
  /\ UNCHANGED <<extVars, callerVars, at_pc, dt_pc, dt_cur, dspQ, guiQ, delivered,
                 startsAccepted, dspStartCalls, applies>>

\* MainWindow::onApplyBins with a valid entry: setNumBands is queued to _dsp
OnApplyBins ==
  /\ applies < MaxApply
  /\ applies' = applies + 1
  /\ \E n \in {16, 32, 64} : dspQ' = PostEvent(dspQ, BandsEvent(n))
  /\ UNCHANGED <<extVars, dspVars, callerVars, cap, mw_running, at_pc, at_exited, dt_pc,
                 dt_exited, dt_cur, guiQ, dsp_raced, delivered, startsAccepted,
                 dspStartCalls, clicks>>

\* The GUI event loop delivers stopped() emitted on the audio thread to
\* _audioThread.quit()
GuiDispatch ==
  /\ guiQ # <<>>
  /\ guiQ' = Tail(guiQ)
  /\ at_exited' = TRUE
  /\ UNCHANGED <<extVars, dspVars, callerVars, cap, mw_running, at_pc, dt_pc, dt_exited,
                 dt_cur, dspQ, dsp_raced, delivered, startsAccepted,
                 dspStartCalls, clicks, applies>>

\* One step of AudioCapture::start on the audio thread: c1 is the capture
\* after the step, next the position if start() goes on.
AudioStep(c1, next) ==
  /\ cap' = c1
  /\ at_pc' = IF c1.outcome = "pending" THEN next ELSE "exec"
  /\ guiQ' = IF c1.outcome \in FailedOutcomes THEN PostEvent(guiQ, "quitAudio") ELSE guiQ
  /\ UNCHANGED <<extVars, dspVars, callerVars, mw_running, at_exited, dt_pc, dt_exited,
                 dt_cur, dspQ, dsp_raced, delivered, startsAccepted,
                 dspStartCalls, clicks, applies>>

AudioStartContext ==
  /\ at_pc = "started"
  /\ \E ok \in BOOLEAN : AudioStep(cap_start_context(cap, ok), "dev")

AudioStartDevice ==
  /\ at_pc = "dev"
  /\ \E ok \in BOOLEAN, rate \in DeviceRates, ch \in DeviceChannels :
       AudioStep(cap_start_deviceInit(cap, ok, rate, ch), "run")

AudioStartRun ==
  /\ at_pc = "run"
  /\ \E ok \in BOOLEAN : AudioStep(cap_start_deviceStart(cap, ok), "store")

AudioStartStore ==
  /\ at_pc = "store"
  /\ cap' = cap_start_store(cap)
  /\ at_pc' = "exec"
  /\ UNCHANGED <<extVars, dspVars, callerVars, mw_running, at_exited, dt_pc, dt_exited,
                 dt_cur, dspQ, guiQ, dsp_raced, delivered, startsAccepted,
                 dspStartCalls, clicks, applies>>

\* QThread::exec returns once exit was requested; the thread finishes.
AudioThreadFinish ==
  /\ at_pc = "exec"
  /\ at_exited
  /\ at_pc' = "off"
  /\ UNCHANGED <<extVars, dspVars, callerVars, cap, mw_running, at_exited, dt_pc,
                 dt_exited, dt_cur, dspQ, guiQ, dsp_raced, delivered,
                 startsAccepted, dspStartCalls, clicks, applies>>

\* QThread::started -> AudioProcessor::start, on the DSP thread
DspThreadBegin ==
  /\ dt_pc = "started"
  /\ dsp_start
  /\ dspStartCalls' = dspStartCalls + 1
  /\ dt_pc' = "exec"
  /\ UNCHANGED <<extVars, callerVars, cap, mw_running, at_pc, at_exited, dt_exited,
                 dt_cur, dspQ, guiQ, dsp_raced, delivered, startsAccepted, clicks, applies>>

\* The DSP thread's event loop takes the oldest posted call.
DspThreadTake ==
  /\ dt_pc = "exec"
  /\ dspQ # <<>>
  /\ dt_cur' = Head(dspQ)
  /\ dspQ' = Tail(dspQ)
  /\ dt_pc' = "busy"
  /\ delivered' = IF Head(dspQ).kind = "frames"
                  THEN Append(delivered, Head(dspQ).id) ELSE delivered
  /\ UNCHANGED <<extVars, dspVars, callerVars, cap, mw_running, at_pc, at_exited,
                 dt_exited, guiQ, dsp_raced, startsAccepted, dspStartCalls, clicks, applies>>

\* ... and runs it: onFrames or setNumBands
DspThreadRun ==
  /\ dt_pc = "busy"
  /\ IF dt_cur.kind = "frames"
     THEN \E allocOk \in BOOLEAN :
            /\ ~allocOk => allocFails < MaxAllocFail
            /\ onFrames(dt_cur.left, dt_cur.right, allocOk)
     ELSE setNumBands(dt_cur.arg)
  /\ dt_cur' = NoEvent
  /\ dt_pc' = "exec"
  /\ UNCHANGED <<extVars, callerVars, cap, mw_running, at_pc, at_exited, dt_exited,
                 dspQ, guiQ, dsp_raced, delivered, startsAccepted,
                 dspStartCalls, clicks, applies>>

DspThreadFinish ==
  /\ dt_pc = "exec"
  /\ dt_exited
  /\ dt_pc' = "off"
  /\ UNCHANGED <<extVars, dspVars, callerVars, cap, mw_running, at_pc, at_exited,
                 dt_exited, dt_cur, dspQ, guiQ, dsp_raced, delivered,
                 startsAccepted, dspStartCalls, clicks, applies>>

\* The driver calls dataCallback; a batch it emits is posted to _dsp.
DataCallback ==
  /\ cap.active
  /\ cap.emitted < MaxBatches
  /\ \E frameCount \in FrameCounts, hasInput \in BOOLEAN :
       LET r == dataCallback(cap, frameCount, hasInput) IN
       /\ cap' = r.cap
       /\ IF r.batch = <<>>
          THEN dspQ' = dspQ
          ELSE /\ CanPost(dspQ, dt_pc = "busy")
               /\ dspQ' = PostEvent(dspQ, FramesEvent(r.batch[1]))
  /\ UNCHANGED <<extVars, dspVars, callerVars, mw_running, at_pc, at_exited, dt_pc,
                 dt_exited, dt_cur, guiQ, dsp_raced, delivered, startsAccepted,
                 dspStartCalls, clicks, applies>>

\* The callback's step that emits a batch
EmitBatch == DataCallback /\ cap'.emitted = cap.emitted + 1

Next ==
  \/ OnStart
  \/ OnStop
  \/ OnApplyBins
  \/ GuiDispatch
  \/ AudioStartContext
  \/ AudioStartDevice
  \/ AudioStartRun
  \/ AudioStartStore
  \/ AudioThreadFinish
  \/ DspThreadBegin
  \/ DspThreadTake
  \/ DspThreadRun
  \/ DspThreadFinish
  \/ DataCallback

Spec == Init /\ [][Next]_vars

(***************************************************************************)
(* SpecApi: one caller invoking the slots of both objects one after the    *)
(* other, with framesReady connected directly to onFrames                  *)
(***************************************************************************)
Called(name) ==
  /\ calls < MaxCalls
  /\ calls' = calls + 1
  /\ prevCall' = lastCall
  /\ lastCall' = name
  /\ UNCHANGED <<reconfigs, pipeVars, extVars>>

ApiCapStart ==
  /\ \E okCtx \in BOOLEAN, okDev \in BOOLEAN, okRun \in BOOLEAN,
        rate \in DeviceRates, ch \in DeviceChannels :
       cap' = cap_start(cap, okCtx, okDev, okRun, rate, ch)
  /\ Called("AudioCapture::start")
  /\ UNCHANGED dspVars

ApiCapRequestStop ==
  /\ cap' = cap_requestStop(cap)
  /\ Called("AudioCapture::requestStop")
  /\ UNCHANGED dspVars

ApiDspStart ==
  /\ dsp_start
  /\ Called("AudioProcessor::start")
  /\ UNCHANGED cap

ApiDspRequestStop ==
  /\ dsp_requestStop
  /\ Called("AudioProcessor::requestStop")
  /\ UNCHANGED cap

ApiDataCallback ==
  /\ cap.active
  /\ cap.emitted < MaxBatches
  /\ \E frameCount \in FrameCounts, hasInput \in BOOLEAN, allocOk \in BOOLEAN :
       LET r == dataCallback(cap, frameCount, hasInput) IN
       /\ cap' = r.cap
       /\ ~allocOk => allocFails < MaxAllocFail
       /\ IF r.batch = <<>>
          THEN UNCHANGED dspVars
          ELSE onFrames(r.batch[1].left, r.batch[1].right, allocOk)
  /\ Called("AudioCapture::dataCallback")

ApiNext ==
  \/ ApiCapStart
  \/ ApiCapRequestStop
  \/ ApiDspStart
  \/ ApiDspRequestStop
  \/ ApiDataCallback

SpecApi == Init /\ [][ApiNext]_vars

(***************************************************************************)
(* SpecPairs: one caller of AudioProcessor whose batches may have          *)
(* different left and right lengths                                        *)
(***************************************************************************)
PairShapes == {<<256, 480>>, <<480, 256>>, <<1536, 480>>, <<480, 480>>}
PairRates == {44100, 48000}

PairOnFrames ==
  /\ \E shape \in PairShapes, allocOk \in BOOLEAN :
       /\ ~allocOk => allocFails < MaxAllocFail
       /\ onFrames(Batch("L", srcL, shape[1]), Batch("R", srcR, shape[2]), allocOk)
  /\ Called("AudioProcessor::onFrames")
  /\ UNCHANGED cap

PairSetSampleRate ==
  /\ \E sr \in PairRates : setSampleRate(sr)
  /\ Called("AudioProcessor::setSampleRate")
  /\ UNCHANGED cap

PairsNext ==
  \/ ApiDspStart
  \/ ApiDspRequestStop
  \/ PairOnFrames
  \/ PairSetSampleRate

SpecPairs == Init /\ [][PairsNext]_vars

(***************************************************************************)
(* SpecBands: setupFrequencyBands for the configurations setSampleRate and *)
(* setNumBands can leave behind                                            *)
(***************************************************************************)
TableRates == {1, 30, 40, 41, 8000, 22050, 44100, 48000, 96000, 192000}
TableSizes == {1024, 2048, 4096}
TableBands == {16, 32, 64}

BandsInit ==
  /\ DspInit /\ CallerInit /\ cap = CapInit /\ PipeInit
  /\ \E sr \in TableRates, n \in TableSizes, nb \in TableBands :
       bt = bandsBegin(sr, n, nb)
  /\ udp = UdpInit
  /\ adv = AdvInit
  /\ mp = MpIdle
  /\ em = EmInit
  /\ viz = VizInit
  /\ ons = OnsInit

BandLoop ==
  /\ bt.i < bt.numBands
  /\ bt' = bandsStep(bt)
  /\ UNCHANGED <<dspVars, callerVars, cap, pipeVars, udp, ons, viz, em, mp, adv>>

BandsNext == BandLoop

SpecBands == BandsInit /\ [][BandsNext]_vars

(***************************************************************************)
(* SpecUdp: time passing and sendFromBins calls with various vectors;      *)
(* SpecUdpRoll: the same with one vector, long enough for _frame to wrap   *)
(***************************************************************************)
ConstBins(n, v) == [k \in 1..n |-> v]
RampBins(n) == [k \in 1..n |-> ((k - 1) * 1000) \div n]
WildBins(n) == [k \in 1..n |-> IF k % 2 = 1 THEN 1500 ELSE -250]

ZeroInputs == {<<>>, ConstBins(64, 0)}
VariedInputs == {ConstBins(16, 1000), RampBins(5), RampBins(40), WildBins(17)}
UdpInputs == ZeroInputs \cup VariedInputs

\* One millisecond passes.
UdpTick ==
  /\ udp.elapsed < MaxElapsed
  /\ udp' = [udp EXCEPT !.elapsed = @ + 1, !.sinceSend = @ + 1]
  /\ UNCHANGED <<dspVars, callerVars, cap, pipeVars, bt, ons, viz, em, mp, adv>>

\* binsReady -> sendFromBins
UdpSendFromBins ==
  /\ \E bins \in UdpInputs :
       LET r == sendFromBins(udp, bins) IN
       /\ r.throttled <= MaxThrottled
       /\ r.varied <= MaxVaried
       /\ r.zeroRun <= MaxZeroRun
       /\ udp' = r
  /\ UNCHANGED <<dspVars, callerVars, cap, pipeVars, bt, ons, viz, em, mp, adv>>

UdpNext == UdpTick \/ UdpSendFromBins

SpecUdp == Init /\ [][UdpNext]_vars

RollSendFromBins ==
  /\ LET r == sendFromBins(udp, ConstBins(16, 0)) IN
     /\ r.throttled <= MaxThrottled
     /\ r.sent <= MaxRollSends
     /\ udp' = r
  /\ UNCHANGED <<dspVars, callerVars, cap, pipeVars, bt, ons, viz, em, mp, adv>>

RollNext == UdpTick \/ RollSendFromBins

SpecUdpRoll == Init /\ [][RollNext]_vars

(***************************************************************************)
(* SpecOnset: detectOnsets stepping over a sequence of spectra             *)
(***************************************************************************)
MagLevels == {0, 50, 51, 300}
MidLevels == {0, 300}

\* One analysis step: detectOnsets on the next spectrum, and the record of
\* which steps had flux above the threshold and which reported an onset.
OnsetStep ==
  /\ ons.steps < MaxOnsetSteps
  /\ \E lf \in MagLevels, mid \in MidLevels, hf \in MagLevels :
       LET r == detectOnsets(ons, [lf |-> lf, mid |-> mid, hf |-> hf])
           t == ons.steps + 1
           above == r._onsetStrength[1] > FluxThreshold
       IN
       /\ above => ons.transients < MaxTransients
       /\ ons' = [r EXCEPT !.steps = t,
                           !.onsets = IF r._isOnset THEN @ + 1 ELSE @,
                           !.prevOnset = IF r._isOnset THEN ons.lastOnset ELSE @,
                           !.lastOnset = IF r._isOnset THEN t ELSE @,
                           !.transients = IF above THEN @ + 1 ELSE @,
                           !.firstTransient = IF above /\ @ = 0 THEN t ELSE @,
                           !.lastTransient = IF above THEN t ELSE @]
  /\ UNCHANGED <<dspVars, callerVars, cap, pipeVars, bt, udp, viz, em, mp, adv>>

OnsetNext == OnsetStep

SpecOnset == Init /\ [][OnsetNext]_vars

(***************************************************************************)
(* SpecViz: the visualizer receiving data, being resized and painting      *)
(***************************************************************************)
WidgetWidths == {MinimumWidth, MinimumWidth + 720}

VizData ==
  /\ viz' = onMultiResolutionData(viz)
  /\ UNCHANGED <<dspVars, callerVars, cap, pipeVars, bt, udp, ons, em, mp, adv>>

VizResize ==
  /\ \E w \in WidgetWidths : viz' = resizeEvent(viz, w)
  /\ UNCHANGED <<dspVars, callerVars, cap, pipeVars, bt, udp, ons, em, mp, adv>>

VizPaint ==
  /\ viz' = paintEvent(viz)
  /\ UNCHANGED <<dspVars, callerVars, cap, pipeVars, bt, udp, ons, em, mp, adv>>

VizNext == VizData \/ VizResize \/ VizPaint

SpecViz == Init /\ [][VizNext]_vars

(***************************************************************************)
(* SpecEmit: analysis frames with various band vectors and band counts     *)
(***************************************************************************)
BandCounts == {16, 32, 64}
ZeroBands(n) == [b \in 1 .. n |-> 0]
\* every magnitude is a multiple of 8 thousandths, so that the averages of
\* up to four bands, and of pairs over two channels, are exact
FlatBands(n) == [b \in 1 .. n |-> 704]
RisingBands(n) == [b \in 1 .. n |-> 40 * b]
LowSpike(n) == [b \in 1 .. n |-> IF b = 1 THEN 2496 ELSE 0]
HighSpike(n) == [b \in 1 .. n |-> IF b = n THEN 8 ELSE 0]
MidSpike(n) == [b \in 1 .. n |-> IF 2 * b = n THEN 1600 ELSE 0]
LowHalf(n) == [b \in 1 .. n |-> IF 2 * b <= n THEN 1200 - 8 * b ELSE 0]
BandVectors(n) == {ZeroBands(n), FlatBands(n), RisingBands(n), LowSpike(n),
                   HighSpike(n), MidSpike(n), LowHalf(n)}

EmitFrame ==
  /\ \E n \in BandCounts : \E bandsL \in BandVectors(n), bandsR \in BandVectors(n) :
       em' = [frames |-> 1, bandsL |-> bandsL, bandsR |-> bandsR,
              out |-> loopPass(bandsL, bandsR)]
  /\ UNCHANGED <<dspVars, callerVars, cap, pipeVars, bt, udp, ons, viz, mp, adv>>

EmitNext == EmitFrame

SpecEmit == Init /\ [][EmitNext]_vars

(***************************************************************************)
(* SpecAdv: AdvancedAudioProcessor's slots and setSampleRate called in any *)
(* order, kiss_fftr_alloc failing in at most MaxAdvAllocFail calls         *)
(***************************************************************************)
AdvBatches == {0, AdvHop, _macroN}
AdvRates == {44100, 48000}
AllocOutcomes == {Resolutions, {}} \cup {Resolutions \ {r} : r \in Resolutions}

\* the call returns: one more call made, one more failing if an allocation failed
AdvReturn(a) ==
  [a EXCEPT !.calls = @ + 1,
            !.fails = @ + (IF a.callFailed # {} THEN 1 ELSE 0)]

AdvStart ==
  /\ adv.calls < MaxAdvCalls
  /\ adv' = AdvReturn(adv_start(adv))
  /\ UNCHANGED <<dspVars, callerVars, cap, pipeVars, bt, udp, ons, viz, em, mp>>

AdvRequestStop ==
  /\ adv.calls < MaxAdvCalls
  /\ adv' = AdvReturn(adv_requestStop(adv))
  /\ UNCHANGED <<dspVars, callerVars, cap, pipeVars, bt, udp, ons, viz, em, mp>>

AdvSetSampleRate ==
  \E sr \in AdvRates :
    /\ adv.calls < MaxAdvCalls
    /\ adv' = AdvReturn(adv_setSampleRate(adv, sr))
    /\ UNCHANGED <<dspVars, callerVars, cap, pipeVars, bt, udp, ons, viz, em, mp>>

AdvOnFrames ==
  \E n \in AdvBatches, ok \in AllocOutcomes :
    /\ adv.calls < MaxAdvCalls
    /\ ok # Resolutions => adv.fails < MaxAdvAllocFail
    /\ adv' = AdvReturn(adv_onFrames(adv, n, n, ok))
    /\ UNCHANGED <<dspVars, callerVars, cap, pipeVars, bt, udp, ons, viz, em, mp>>

AdvNext == AdvStart \/ AdvRequestStop \/ AdvSetSampleRate \/ AdvOnFrames

SpecAdv == Init /\ [][AdvNext]_vars

(***************************************************************************)
(* SpecMappings: setupFrequencyBands of AdvancedAudioProcessor building    *)
(* the mapping of one resolution at one sample rate                        *)
(***************************************************************************)
MappingRates == {44100, 48000}

MappingsInit ==
  /\ DspInit /\ CallerInit /\ cap = CapInit /\ PipeInit
  /\ bt = BandsIdle
  /\ udp = UdpInit
  /\ adv = AdvInit
  /\ ons = OnsInit
  /\ viz = VizInit
  /\ em = EmInit
  /\ adv = AdvInit
  /\ \E res \in Resolutions \cup {"chroma"}, sr \in MappingRates :
       mp = mappingBegin(res, sr)

MappingLoop ==
  /\ mp.res \in Resolutions
  /\ mp.i < Len(ResolutionEdges(mp.res)) - 1
  /\ mp' = mappingStep(mp)
  /\ UNCHANGED <<dspVars, callerVars, cap, pipeVars, bt, udp, ons, viz, em, adv>>

ChromaLoop ==
  /\ mp.res = "chroma"
  /\ mp.i < 12
  /\ mp' = chromaStep(mp)
  /\ UNCHANGED <<dspVars, callerVars, cap, pipeVars, bt, udp, ons, viz, em, adv>>

MappingsNext == MappingLoop \/ ChromaLoop

SpecMappings == MappingsInit /\ [][MappingsNext]_vars


(***************************************************************************)
(* Claims checked under SpecDsp                                            *)
(***************************************************************************)

\* C1: with equal channel lengths and no stop or reconfiguration in between,
\* the k-th analysis window (k = 0, 1, ..) copied from each FIFO is samples
\* [k*hop, k*hop+N) of that channel's input stream, in order, whatever the
\* batch sizes.  lastFrames holds the windows of the latest onFrames call,
\* the last of them being window number nRaw-1 of the session.
C1_WindowsAreStream ==
  \A i \in 1..Len(lastFrames) :
    LET k == nRaw - Len(lastFrames) + i - 1 IN
    /\ lastFrames[i].L = <<Run("L", k * _hop + 1, k * _hop + _N)>>
    /\ lastFrames[i].R = <<Run("R", k * _hop + 1, k * _hop + _N)>>

\* C1 witness: one call copied two overlapping windows, after earlier ones,
\* from batches that do not line up with the hop.
C1_Witness ==
  /\ Len(lastFrames) >= 2
  /\ nRaw >= 4
  /\ srcL % _hop # 0
  /\ lastFrames[2].L = <<Run("L", (nRaw - 1) * _hop + 1, (nRaw - 1) * _hop + _N)>>

\* C2: after T samples per channel reached a running, initialized processor,
\* binsReadyRaw was emitted 0 times if T < N and floor((T-N)/hop)+1 times
\* otherwise, and fewer than N samples remain in each FIFO.
C2_FrameCount ==
  (dsp_running /\ _initialized /\ _cfg # NULL) =>
    /\ nRaw = (IF srcL < _N THEN 0 ELSE (srcL - _N) \div _hop + 1)
    /\ Size(_fifoL) < _N
    /\ Size(_fifoR) < _N

\* C2 witness: 40 batches' worth of 256 samples with N = 1024, hop = 512.
C2_Witness ==
  /\ dsp_running /\ _initialized /\ _cfg # NULL
  /\ _N = 1024 /\ _hop = 512
  /\ srcL = 40 * 256
  /\ nRaw = 19

C3_InOrderAtMostOnce ==
  /\ \A i \in 1..Len(delivered) : delivered[i] \in 1..cap.emitted
  /\ \A i \in 1..Len(delivered), j \in 1..Len(delivered) :
       i < j => delivered[i] < delivered[j]

\* Three batches emitted, the third still queued behind the second being
\* processed.
C3_Witness ==
  /\ delivered = <<1, 2>>
  /\ dt_pc = "busy"
  /\ dt_cur.id = 2
  /\ Len(dspQ) = 1
  /\ dspQ[1].id = 3

\* C4: whenever capture is running (device started, _running set), the
\* callback's step that emits a batch is enabled, whether the analysis
\* thread is idle, busy inside a slot or has a backlog of undelivered
\* batches (up to the model's bound on emitted batches).
C4_ProducerNeverWaits ==
  (cap.active /\ cap.running /\ cap.emitted < MaxBatches) => ENABLED EmitBatch

\* Capture running while the analysis thread is inside onFrames with another
\* batch waiting behind it.
C4_Witness ==
  /\ cap.active
  /\ cap.running
  /\ cap.emitted = 2
  /\ dt_pc = "busy"
  /\ dt_cur.kind = "frames"
  /\ Len(dspQ) = 1
  /\ dspQ[1].kind = "frames"

\* C5: once requestStop has returned (and start has not been entered
\* again), _running is false, _ctx and _dev are null and no framesReady has
\* been emitted since.  Violated: called from the GUI thread while start()
\* is between "new ma_context" and "_running.store(true)", requestStop sees
\* _running false, emits stopped() and returns; start() then goes on to open
\* and start the device.
C5_StoppedAfterReturn ==
  cap.stopReturned =>
    /\ ~cap.running
    /\ cap.ctx = NULL
    /\ cap.dev = NULL
    /\ ~cap.lateFrames

\* C6: when requestStop is called twice in a row on the same object, the
\* state the first call left is the stopped one (not running, device and
\* context or FFT configuration released, FIFOs empty) and the second call
\* leaves it as it is.
C6_SecondStopChangesNothing ==
  [][ /\ (lastCall = "AudioCapture::requestStop"
            /\ lastCall' = "AudioCapture::requestStop" /\ calls' = calls + 1)
         => /\ ~cap.running /\ cap.ctx = NULL /\ cap.dev = NULL /\ ~cap.active
            /\ cap'.running = cap.running
            /\ cap'.ctx = cap.ctx
            /\ cap'.dev = cap.dev
            /\ cap'.active = cap.active
      /\ (lastCall = "AudioProcessor::requestStop"
            /\ lastCall' = "AudioProcessor::requestStop" /\ calls' = calls + 1)
         => /\ ~dsp_running /\ _cfg = NULL /\ _fifoL = <<>> /\ _fifoR = <<>>
            /\ UNCHANGED dspVars
    ]_vars

\* Both objects were started, a batch went through, and each was then
\* stopped twice in a row.
C6_Witness ==
  /\ lastCall = "AudioProcessor::requestStop"
  /\ prevCall = "AudioProcessor::requestStop"
  /\ cap.emitted >= 1
  /\ Len(cap.out) >= 4
  /\ cap.out[Len(cap.out)] = "stopped"
  /\ cap.out[Len(cap.out) - 1] = "stopped"
  /\ cap.out[Len(cap.out) - 2] = "status"

\* C7: after a start() that failed at context init, device init or device
\* start, a status and stopped() have been emitted, _running is false, _ctx
\* and _dev are null, the device is not started, no framesReady was emitted
\* for the attempt, and start() has been called no more often than the
\* threads were asked to start.
C7_FailedStart ==
  cap.outcome \in FailedOutcomes =>
    /\ \E i \in 1..Len(cap.out) : cap.out[i] = "status"
    /\ \E i \in 1..Len(cap.out) : cap.out[i] = "stopped"
    /\ \A i \in 1..Len(cap.out) : cap.out[i] # "framesReady"
    /\ ~cap.running
    /\ cap.ctx = NULL
    /\ cap.dev = NULL
    /\ ~cap.active
    /\ cap.starts <= startsAccepted

\* A second session whose device failed to start, after a first one that
\* delivered batches; the audio thread has quit.
C7_Witness ==
  /\ cap.outcome = "startfail"
  /\ cap.starts = 2
  /\ cap.emitted >= 1
  /\ at_pc = "off"
  /\ guiQ = <<>>

\* C8: every accepted Start is followed by one invocation of
\* AudioCapture::start and one of AudioProcessor::start: whenever the
\* window is in the running state and neither thread is on its way into its
\* start slot, both have been invoked as often as Start was accepted.
\* Violated: onStart arriving after onStop but before a worker thread has
\* left its event loop calls QThread::start() on a thread that is still
\* running, which does nothing; the thread then finishes and the pipeline
\* stays down with MainWindow::_running true.
C8_StartRestarts ==
  (mw_running /\ at_pc # "started" /\ dt_pc # "started") =>
    /\ cap.starts = startsAccepted
    /\ dspStartCalls = startsAccepted

\* C9: in a session whose start succeeded with a device rate other than
\* 48000, once a framesReady has been emitted exactly one
\* deviceSampleRateChanged precedes the first framesReady.  Violated:
\* start() never emits deviceSampleRateChanged.
C9_RateAnnouncedOnce ==
  (cap.outcome = "ok" /\ cap.rate # NominalRate
     /\ \E i \in 1..Len(cap.out) : cap.out[i] = "framesReady") =>
    LET first == CHOOSE i \in 1..Len(cap.out) :
                   /\ cap.out[i] = "framesReady"
                   /\ \A j \in 1..(i - 1) : cap.out[j] # "framesReady"
    IN Cardinality({j \in 1..(first - 1) : cap.out[j] = "deviceSampleRateChanged"}) = 1


(***************************************************************************)
(* Claims checked under SpecBands                                          *)
(***************************************************************************)

\* C11: for every band count, FFT size and accepted sample rate, every band
\* b of the table has 1 <= lo_b < hi_b <= N/2, and lo and hi are
\* non-decreasing in b.  Violated: at rates of 40 Hz and below fMin = 20 is
\* not below the Nyquist frequency, hzToK clamps the first edge to N/2 and the
\* band gets lo = hi = N/2.
C11_BandsValid ==
  /\ \A b \in 1..Len(bt.kLo) :
       /\ 1 <= bt.kLo[b]
       /\ bt.kLo[b] < bt.kHi[b]
       /\ bt.kHi[b] <= bt.N \div 2
  /\ \A b \in 2..Len(bt.kLo) :
       /\ bt.kLo[b - 1] <= bt.kLo[b]
       /\ bt.kHi[b - 1] <= bt.kHi[b]


(***************************************************************************)
(* Claims checked under SpecPairs                                          *)
(***************************************************************************)

\* C12: the two FIFOs have the same length in every reachable state, and an
\* onFrames call with non-empty batches on a running processor appends the
\* first min(|left|, |right|) samples of each batch to its FIFO and goes on
\* processing: each FIFO afterwards is the old FIFO plus those samples less
\* the hops of the frames processed, and is below N once the processor is
\* initialized.
C12_TruncateToShorter ==
  [][ /\ Size(_fifoL) = Size(_fifoR)
      /\ Size(_fifoL') = Size(_fifoR')
      /\ (lastCall' = "AudioProcessor::onFrames" /\ calls' = calls + 1 /\ dsp_running) =>
           LET nL == srcL' - srcL
               nR == srcR' - srcR
               n  == IF nL < nR THEN nL ELSE nR
               k  == nRaw' - nRaw
           IN /\ dsp_running'
              /\ _fifoL' = Drop(Cat(_fifoL, Batch("L", srcL, n)), k * _hop)
              /\ _fifoR' = Drop(Cat(_fifoR, Batch("R", srcR, n)), k * _hop)
              /\ (_initialized' /\ _cfg' # NULL) => Size(_fifoL') < _N
    ]_vars

\* Batches of different lengths have gone in, frames have come out, and
\* samples of both channels are waiting.
C12_Witness ==
  /\ lastCall = "AudioProcessor::onFrames"
  /\ dsp_running
  /\ srcL # srcR
  /\ nRaw >= 1
  /\ Size(_fifoL) > 0
  /\ Size(_fifoL) = Size(_fifoR)
  /\ Len(_fifoL) >= 2


(***************************************************************************)
(* Claims checked under SpecUdp and SpecUdpRoll                            *)
(***************************************************************************)

\* C13: a sendFromBins call arriving less than 20 ms after the last accepted
\* one is dropped: it writes no datagram and leaves the throttle timer,
\* _fast, _slow and _frame as they were.  Its vector is not kept: a datagram
\* is only ever written by a call that finds 20 ms elapsed, and carries the
\* bytes of that call's own vector.
C13_ThrottledCallIsNoOp ==
  [][ /\ (udp.elapsed < ThrottleMs
           /\ (udp'.throttled = udp.throttled + 1 \/ udp'.sent # udp.sent)) =>
             /\ udp'.outcome = "throttled"
             /\ udp'.sent = udp.sent
             /\ udp'.last = udp.last
             /\ udp'.elapsed = udp.elapsed
             /\ udp'.fast = udp.fast
             /\ udp'.slow = udp.slow
             /\ udp'.frame = udp.frame
      /\ udp'.sent # udp.sent =>
             /\ udp.elapsed >= ThrottleMs
             /\ udp'.sent = udp.sent + 1
             /\ udp'.last.fftResult = [i \in 1..16 |-> fftByte(udp'.arg, i - 1)]
             /\ udp'.last.sampleRaw = (Clamp(binsMean(udp'.arg), 0, 1000000) * 255) \div 1000
    ]_vars

\* A call with a vector of ones was dropped 19 ms after an earlier datagram
\* made from zeros.
C13_Witness ==
  /\ udp.outcome = "throttled"
  /\ udp.arg = ConstBins(16, 1000)
  /\ udp.elapsed = 19
  /\ udp.sent >= 2
  /\ udp.last.fftResult = [i \in 1..16 |-> 0]

\* C14: any two consecutive datagrams are at least 20 ms apart, whatever the
\* arrival pattern of the calls, and every datagram goes to the address and
\* port given to setTarget.
C14_AtMostFiftyPerSecond ==
  /\ udp.sent >= 2 => udp.gap >= ThrottleMs
  /\ udp.sent >= 1 => (udp.last.to = TargetAddr /\ udp.last.port = TargetPort)

\* Three datagrams, the last one exactly 20 ms after the one before.
C14_Witness ==
  /\ udp.sent >= 3
  /\ udp.gap = ThrottleMs
  /\ udp.outcome = "sent"
  /\ udp.last.to = TargetAddr

\* C15: the n-th datagram (n = 0, 1, ..) carries frameCounter = n mod 256:
\* every call that passes the throttle writes exactly one datagram, whose
\* counter is the previous one's plus one modulo 256, and a throttled call
\* leaves the counter alone.
C15_FrameCounterRolls ==
  [][ /\ udp.frame = udp.sent % 256
      /\ udp.sent >= 1 => udp.last.frameCounter = (udp.sent - 1) % 256
      /\ (udp.elapsed >= ThrottleMs
           /\ (udp'.throttled = udp.throttled + 1 \/ udp'.sent # udp.sent)) =>
             /\ udp'.sent = udp.sent + 1
             /\ udp.sent >= 1 =>
                   udp'.last.frameCounter = (udp.last.frameCounter + 1) % 256
      /\ udp'.throttled = udp.throttled + 1 =>
             (udp'.frame = udp.frame /\ udp'.sent = udp.sent)
    ]_vars

\* The 258th datagram, after the counter has wrapped.
C15_Witness ==
  /\ udp.sent = 258
  /\ udp.last.frameCounter = 1
  /\ udp.frame = 2

\* C16: for the vector of the latest datagram, of length N: with N = 0 all
\* 16 bytes are 0; otherwise byte i (0..15) is round(255 * mean of the
\* clamped inputs k0..k1), k0 = floor(i*N/16), k1 = max(k0,
\* floor((i+1)*N/16) - 1), with 0 <= k0 <= k1 <= N-1 the indices read and the
\* byte in 0..255; and for N >= 16 the segments start at 0, follow one
\* another without gap or overlap and end at N-1.
C16_SixteenSegments ==
  udp.outcome = "sent" =>
    LET bins == udp.arg
        N == Len(bins)
        clamped == [k \in 1..N |-> IF bins[k] < 0 THEN 0
                                   ELSE IF bins[k] > 1000 THEN 1000 ELSE bins[k]]
    IN
    /\ N = 0 => udp.last.fftResult = [i \in 1..16 |-> 0]
    /\ N > 0 =>
         \A i \in 0..15 :
           LET k0 == (i * N) \div 16
               k1 == Max(k0, ((i + 1) * N) \div 16 - 1)
               cnt == k1 - k0 + 1
               acc == SumSeq(clamped, k0 + 1, k1 + 1)
               byte == udp.last.fftResult[i + 1]
           IN /\ udp.reads[i + 1] = <<k0, k1>>
              /\ 0 <= k0 /\ k0 <= k1 /\ k1 <= N - 1
              /\ byte \in 0..255
              /\ 2 * 1000 * cnt * byte <= 2 * 255 * acc + 1000 * cnt
              /\ 2 * 255 * acc + 1000 * cnt < 2 * 1000 * cnt * (byte + 1)
    /\ N >= 16 =>
         /\ udp.reads[1][1] = 0
         /\ udp.reads[16][2] = N - 1
         /\ \A i \in 1..15 : udp.reads[i + 1][1] = udp.reads[i][2] + 1

\* A datagram made from a 40-bin ramp: segments of 2 and 3 bins.
C16_Witness ==
  /\ udp.outcome = "sent"
  /\ udp.arg = RampBins(40)
  /\ udp.reads[1] = <<0, 1>>
  /\ udp.reads[2] = <<2, 4>>
  /\ udp.last.fftResult[16] > 0

\* C17: a datagram made from an all-zero vector has sampleRaw = 0,
\* samplePeak = 0 and 16 zero bytes, and from the eighth all-zero datagram
\* in a row on sampleSmth is 0.  Violated: samplePeak is 1 whenever
\* _fast/_slow exceeds 9 dB, and right after a loud vector it still does.
C17_ZeroVectorPacket ==
  (udp.outcome = "sent" /\ IsZeroVector(udp.arg)) =>
    /\ udp.last.sampleRaw = 0
    /\ udp.last.samplePeak = 0
    /\ udp.last.fftResult = [i \in 1..16 |-> 0]
    /\ udp.zeroRun >= 8 => udp.last.sampleSmth = 0

\* C18: a detectOnsets step reports an onset exactly when the total flux is
\* above the threshold and the cooldown counter, decremented for this step,
\* is zero; two consecutive onset steps are at least _onsetCooldown steps
\* apart; and when just two steps had flux above the threshold, fewer than
\* _onsetCooldown steps apart, exactly one onset was reported.
C18_OnsetCooldown ==
  [][ons'.steps # ons.steps =>
       /\ ons'._isOnset <=>
            /\ ons'._onsetStrength[1] > FluxThreshold
            /\ (IF ons._onsetTimer > 0 THEN ons._onsetTimer - 1 ELSE 0) = 0
       /\ ons'.prevOnset > 0 => ons'.lastOnset - ons'.prevOnset >= OnsetCooldown
       /\ (/\ ons'.transients = 2
           /\ ons'.lastTransient - ons'.firstTransient < OnsetCooldown)
          => ons'.onsets = 1]_vars

\* Two onsets exactly _onsetCooldown steps apart, and between them a step with
\* flux above the threshold that reported none.
C18_Witness ==
  /\ ons.prevOnset > 0
  /\ ons.lastOnset - ons.prevOnset = OnsetCooldown
  /\ ons.transients = 3
  /\ ons.onsets = 2

\* C19: while capture is running, a driver callback with frameCount > 0 emits
\* exactly one framesReady batch whose left and right both hold frameCount
\* samples, with input or without; without input every sample is zero.
CallbackFrames == {1, PeriodFrames, 4 * PeriodFrames + 1}

C19_OneBatchPerCallback ==
  cap.running =>
    \A frameCount \in CallbackFrames, hasInput \in BOOLEAN :
      LET r == dataCallback(cap, frameCount, hasInput) IN
      /\ Len(r.batch) = 1
      /\ r.cap.emitted = cap.emitted + 1
      /\ r.cap.out = Append(cap.out, "framesReady")
      /\ Size(r.batch[1].left) = frameCount
      /\ Size(r.batch[1].right) = frameCount
      /\ ~hasInput =>
           /\ \A i \in DOMAIN r.batch[1].left : r.batch[1].left[i].src = "zero"
           /\ \A i \in DOMAIN r.batch[1].right : r.batch[1].right[i].src = "zero"

\* Capture is running and its one batch so far came from a callback without
\* input (no input sample has been consumed).
C19_Witness ==
  /\ cap.running
  /\ lastCall = "AudioCapture::dataCallback"
  /\ cap.out[Len(cap.out)] = "framesReady"
  /\ cap.pos = 0

\* C20: in a running session (begun by start, also after requestStop, or by
\* a change of sample rate) both FIFOs are empty until the session's first
\* samples arrive, and the DC blocker's previous input is 0 on both channels
\* until the session's first frame is processed.
C20_SessionStartsClean ==
  /\ (srcL = 0 /\ srcR = 0) => (_fifoL = <<>> /\ _fifoR = <<>>)
  /\ (dsp_running /\ nRaw = 0) =>
       (_dcBlockerXprevL = ZeroSample /\ _dcBlockerXprevR = ZeroSample)

\* C27: in every state _N is the power of two that setSampleRate's rule gives
\* for the current rate (the smallest one >= round(0.043 * _sr), clamped to
\* 1024..4096) and _hop is _N / 2, so both depend on the current rate only.
C27_WindowFollowsRate ==
  /\ _N = nearestPow2Clamped(targetSamples(_sr), NLo, NHi)
  /\ _hop = _N \div 2

\* The DC blocker's stored previous input when it filters the first sample of
\* the j-th frame of one processAvailableStereo call: what applyDCBlocker left
\* after the frame before, xPrev0 being the value the call started with.
xPrevAtFrame(xPrev0, frames, j, ch) ==
  IF j = 1 THEN xPrev0 ELSE LastSample(frames[j - 1][ch])

\* the stream sample before the first sample of window w
SampleBefore(w) == [src |-> w[1].src, pos |-> w[1].a - 1]

\* C29: whenever the DC blocker filters the first sample of an analysis
\* window that does not begin the stream, its stored previous input is the
\* stream sample just before that first sample, on both channels.
C29_FilterRunsOverStream ==
  [][\A j \in DOMAIN lastFrames' :
       /\ lastFrames'[j].L[1].a > 1 =>
            xPrevAtFrame(_dcBlockerXprevL, lastFrames', j, "L") = SampleBefore(lastFrames'[j].L)
       /\ lastFrames'[j].R[1].a > 1 =>
            xPrevAtFrame(_dcBlockerXprevR, lastFrames', j, "R") = SampleBefore(lastFrames'[j].R)]_vars

\* C21: no thread other than the DSP thread clears the FIFOs or frees the FFT
\* configuration while the DSP thread is inside onFrames: the Stop handler,
\* which runs AudioProcessor::requestStop (and so cleanup) on the GUI thread,
\* never does so while a framesReady call is executing.
C21_AnalysisOwnsFifos ==
  [][(mw_running /\ ~mw_running' /\ dsp_running)
       => ~(dt_pc = "busy" /\ dt_cur.kind = "frames")]_vars

\* C30: every index the draw routines read from _bassHistory,
\* _spectralCentroidHistory and _onsetHistory is in 0 .. size-1, and no
\* history holds more than MAX_HISTORY entries.
C30_HistoryReadsInRange ==
  /\ viz.size <= MAX_HISTORY
  /\ \A k \in viz.bassReads \cup viz.spectralReads \cup viz.onsetReads :
       k \in 0 .. viz.size - 1

\* C26: for an analysis frame exactly one binsReady vector is emitted, one per
\* binsReadyRaw; it has 16 values in [0,1], its largest value is 1 unless it
\* is all zero, and it is all zero only when the frame's band vectors are.
BinsReadyOf(out) == SelectSeq(out, LAMBDA s : s.sig = "binsReady")
BinsReadyRawOf(out) == SelectSeq(out, LAMBDA s : s.sig = "binsReadyRaw")
AllZero(s) == \A i \in DOMAIN s : s[i] = 0

C26_OneControlVectorPerFrame ==
  em.frames > 0 =>
    /\ Len(BinsReadyRawOf(em.out)) = 1
    /\ Len(BinsReadyOf(em.out)) = 1
    /\ \A j \in DOMAIN BinsReadyOf(em.out) :
         LET bins == BinsReadyOf(em.out)[j].val IN
         /\ Len(bins) = ControlBins
         /\ \A i \in DOMAIN bins : bins[i] \in 0 .. 1000
         /\ AllZero(bins) \/ MaxOf(bins) = 1000
         /\ AllZero(bins) => (AllZero(em.bandsL) /\ AllZero(em.bandsR))

\* C23: at 44100 Hz and 48000 Hz every band of the bass, harmonic,
\* percussive and macro mapping has 1 <= lo < hi <= N/2 for its
\* resolution's N.
C23_MappingsNonDegenerate ==
  mp.res \in Resolutions =>
    \A b \in DOMAIN mp.kLo :
      /\ 1 <= mp.kLo[b]
      /\ mp.kLo[b] < mp.kHi[b]
      /\ mp.kHi[b] <= ResolutionN(mp.res) \div 2

\* C25: the bins summed into chromagram class c are bins within the
\* tolerance (2 bins) of the bin of some octave of that class relative to
\* 440 Hz, and the bins of 440 Hz and of 880 Hz are among those of class A.
ChromaTolerance == 2
ClassA == 9
OctavesOf440 == -4 .. 7
Distance(a, b) == IF a >= b THEN a - b ELSE b - a

C25_ChromaFromOctaveBins ==
  mp.res = "chroma" =>
    \A b \in DOMAIN mp.kLo :
      LET c == b - 1
          summed == chromaBins(mp.kLo[b], mp.kHi[b])
      IN
      /\ \A k \in summed :
           \E octave \in OctavesOf440 :
             Distance(k, binOf(pitchFreq(c, octave), _harmonicN, mp.sr)) <= ChromaTolerance
      /\ c = ClassA =>
           /\ binOf(pitchFreq(ClassA, 0), _harmonicN, mp.sr) \in summed
           /\ binOf(pitchFreq(ClassA, 1), _harmonicN, mp.sr) \in summed

\* C28: every FFT configuration that was allocated is still referenced by
\* the processor or has been freed, and none was freed twice.
C28_ConfigsFreedOnce ==
  /\ adv.live \subseteq {adv.cfg[r] : r \in Resolutions}
  /\ ~adv.doubleFree

\* C24: when kiss_fftr_alloc fails for one resolution, no pass runs against a
\* missing configuration, the allocation is tried again by the next
\* onFrames, and the call still emits the results of the other resolutions
\* when the FIFOs hold a full window.
C24_OnlyFailedResolutionSkipped ==
  /\ ~adv.nullFft
  /\ adv.callFailed # {} => ~adv._initialized
  /\ (Cardinality(adv.callFailed) = 1 /\ adv.callEnough) => Len(adv.out) > 0

\* C22: every bass, harmonic, percussive and macro band vector emitted by a
\* call was computed from a spectrum analysed, with the mapping built, after
\* the latest change of the sampling rate.
C22_BandsFollowRateChange ==
  \A i \in DOMAIN adv.out : \A r \in Resolutions : adv.out[i][r] = adv.epoch

====
